---------------------------- MODULE Spec2Model ----------------------------
(***************************************************************************)
(* Registration intake service (src/server.js, second half of the file,    *)
(* lines 773-2171): pricing, sanitising and validation, the SQLite         *)
(* registration table with its startup migration and legacy import, the    *)
(* busy-retry wrapper and the HTTP routes that use them.                   *)
(*                                                                         *)
(* Strings.  A JavaScript string is a sequence of symbols.  A symbol is a  *)
(* single character (" ", "@", ".", "1", "A") or a program literal that no *)
(* input ever splits ("iaido", "PENDING_PAYMENT").  trim, toLowerCase,     *)
(* concatenation and the regular expressions work symbol by symbol.        *)
(***************************************************************************)
EXTENDS Integers, Sequences, FiniteSets, TLC

VARIABLES
  db,          \* the registrations table of data/camp.db, rows in rowid order
  legacyFile,  \* data/registrations.json
  up,          \* the process is running and listening
  now,         \* Date.now(), milliseconds
  uuids,       \* number of UUIDs drawn so far
  req,         \* the requests in flight, one per connection
  terminated   \* ids whose row has had status DELETED or ANONYMIZED

vars == <<db, legacyFile, up, now, uuids, req, terminated>>

-----------------------------------------------------------------------------
(* Bounds of the model *)

\* the clock (milliseconds) runs 0..MaxTime
MaxTime == 1
\* number of UUIDs the process draws (registrations and imported records
\* without an id)
MaxRegs == 2

-----------------------------------------------------------------------------
(* JavaScript values *)

JsUndefined == [t |-> "undefined", s |-> <<>>, b |-> FALSE, n |-> 0]
JsString(s) == [t |-> "string", s |-> s, b |-> FALSE, n |-> 0]
JsBoolean(b) == [t |-> "boolean", s |-> <<>>, b |-> b, n |-> 0]
JsNumber(n) == [t |-> "number", s |-> <<>>, b |-> FALSE, n |-> n]

\* ToBoolean: undefined, "", false and 0 are falsy
Truthy(v) ==
  CASE v.t = "undefined" -> FALSE
    [] v.t = "string" -> v.s # <<>>
    [] v.t = "boolean" -> v.b
    [] v.t = "number" -> v.n # 0

\* v || w
JsOr(v, w) == IF Truthy(v) THEN v ELSE w

\* Faulty variant: no fallback to the right operand.
JsNullishLeft(v, w) == v

\* v ?? w
JsNullish(v, w) == IF v.t = "undefined" THEN w ELSE v

DigitSym == <<"0", "1", "2", "3", "4", "5", "6", "7", "8", "9">>

RECURSIVE NumberToString(_)
NumberToString(n) ==
  IF n < 10 THEN <<DigitSym[n + 1]>>
  ELSE NumberToString(n \div 10) \o <<DigitSym[(n % 10) + 1]>>

\* String(v)
JsToString(v) ==
  CASE v.t = "undefined" -> <<"undefined">>
    [] v.t = "string" -> v.s
    [] v.t = "boolean" -> IF v.b THEN <<"true">> ELSE <<"false">>
    [] v.t = "number" -> NumberToString(v.n)

WhiteSpace == {" ", "\t", "\n"}

RECURSIVE TrimStart(_)
TrimStart(s) ==
  IF s # <<>> /\ Head(s) \in WhiteSpace THEN TrimStart(Tail(s)) ELSE s

RECURSIVE TrimEnd(_)
TrimEnd(s) ==
  IF s # <<>> /\ s[Len(s)] \in WhiteSpace
  THEN TrimEnd(SubSeq(s, 1, Len(s) - 1))
  ELSE s

\* String.prototype.trim
Trim(s) == TrimEnd(TrimStart(s))

LowerSym(c) ==
  CASE c = "A" -> "a"
    [] c = "B" -> "b"
    [] c = "C" -> "c"
    [] OTHER -> c

\* String.prototype.toLowerCase
ToLowerCase(s) == [i \in 1..Len(s) |-> LowerSym(s[i])]

Digits == {"0", "1", "2", "3", "4", "5", "6", "7", "8", "9"}

-----------------------------------------------------------------------------
(* Constants of the program *)

ADMIN_USERNAME == <<"admin">>
ADMIN_PASSWORD == <<"demo-admin-123">>
ADMIN_SESSION_SECRET == "replace-this-secret-in-production"
ADMIN_SESSION_TTL_SECONDS == 43200
PRIVACY_POLICY_VERSION == <<"2026-02-26">>
TERMS_VERSION == <<"2026-02-26">>
SQLITE_RETRY_MAX_ATTEMPTS == 5
SQLITE_RETRY_BASE_DELAY_MS == 120

PRICE_OPTIONS ==
  [campType |->
     [iaido |-> [label |-> "Iaido seminar", amountHuf |-> 149],
      jodo |-> [label |-> "Jodo seminar", amountHuf |-> 149],
      both |-> [label |-> "Iaido + Jodo seminar", amountHuf |-> 249]],
   mealPlan |->
     [none |-> [label |-> "No meal", amountHuf |-> 0],
      lunch |-> [label |-> "Lunch package", amountHuf |-> 33],
      full |-> [label |-> "Full meal package", amountHuf |-> 60]],
   accommodation |->
     [none |-> [label |-> "No accommodation", amountHuf |-> 0],
      dojo |-> [label |-> "Dojo accommodation", amountHuf |-> 73],
      guesthouse |-> [label |-> "Guesthouse", amountHuf |-> 135]]]

\* Object.prototype.hasOwnProperty.call(allowedValues, s): s is one symbol
\* naming a key of the table
HasOwnProperty(allowedValues, s) ==
  Len(s) = 1 /\ s[1] \in DOMAIN allowedValues

\* Faulty variant: the value is not trimmed.
toEnumValueUntrimmed(value, allowedValues, fallbackValue) ==
  LET normalized == JsToString(JsOr(value, JsString(<<>>)))
  IN IF HasOwnProperty(allowedValues, normalized) THEN normalized ELSE fallbackValue

toEnumValue(value, allowedValues, fallbackValue) ==
  LET normalized == Trim(JsToString(JsOr(value, JsString(<<>>))))
  IN IF HasOwnProperty(allowedValues, normalized) THEN normalized ELSE fallbackValue

LineItem(key, code) ==
  [key |-> key, code |-> code,
   label |-> PRICE_OPTIONS[key][code[1]].label,
   amountHuf |-> PRICE_OPTIONS[key][code[1]].amountHuf]

RECURSIVE SumAmounts(_)
SumAmounts(items) ==
  IF items = <<>> THEN 0 ELSE Head(items).amountHuf + SumAmounts(Tail(items))

calculatePricing(selection) ==
  LET campType == toEnumValue(selection.campType, PRICE_OPTIONS.campType, <<"iaido">>)
      mealPlan == toEnumValue(selection.mealPlan, PRICE_OPTIONS.mealPlan, <<"none">>)
      accommodation ==
        toEnumValue(selection.accommodation, PRICE_OPTIONS.accommodation, <<"none">>)
      lineItems == <<LineItem("campType", campType),
                     LineItem("mealPlan", mealPlan),
                     LineItem("accommodation", accommodation)>>
  IN [selection |->
        [campType |-> campType, mealPlan |-> mealPlan, accommodation |-> accommodation],
      lineItems |-> lineItems,
      totalHuf |-> SumAmounts(lineItems),
      currency |-> <<"EUR">>]

-----------------------------------------------------------------------------
(* Sanitising and validation *)

PayloadKeys ==
  {"fullName", "email", "phone", "dateOfBirth", "city",
   "currentGradeIaido", "currentGrade", "currentGradeJodo",
   "campType", "mealPlan", "accommodation",
   "wantsExamIaido", "wantsExam", "wantsExamJodo",
   "targetGradeIaido", "targetGrade", "targetGradeJodo",
   "billingFullName", "billingZip", "billingCity", "billingAddress",
   "billingCountry", "foodNotes", "privacyConsent", "termsConsent",
   "id", "createdAt", "status", "amountHuf", "currency",
   "privacyPolicyVersion", "termsVersion", "privacyConsentAt", "termsConsentAt",
   "registrationId"}

\* a parsed JSON body: a key the body does not hold reads as undefined
JsObject(fields) ==
  [k \in PayloadKeys |-> IF k \in DOMAIN fields THEN fields[k] ELSE JsUndefined]

\* a body that JSON.parse rejects
Unparseable == [json |-> FALSE]

\* Faulty variant: only the type is looked at.
isNonEmptyStringOfAnyLength(value) == TRUE

\* typeof value === 'string' && value.trim().length > 0, on a string
isNonEmptyString(value) == Len(Trim(value)) > 0

\* a maximal run of one or more symbols, none of them white space or "@"
NoSpaceNoAt(s, from, to) ==
  /\ from <= to
  /\ \A i \in from..to : s[i] \notin WhiteSpace /\ s[i] # "@"

\* /^[^\s@]+@[^\s@]+\.[^\s@]+$/
isValidEmail(value) ==
  \E at \in 1..Len(value) :
    /\ value[at] = "@"
    /\ NoSpaceNoAt(value, 1, at - 1)
    /\ \E dot \in (at + 1)..Len(value) :
         /\ value[dot] = "."
         /\ NoSpaceNoAt(value, at + 1, dot - 1)
         /\ NoSpaceNoAt(value, dot + 1, Len(value))

PhoneSyms == Digits \cup WhiteSpace \cup {"+", "(", ")", "-"}

\* /^[+()\-\s0-9]{7,20}$/ on value.trim()
isValidPhone(value) ==
  LET v == Trim(value)
  IN Len(v) >= 7 /\ Len(v) <= 20 /\ \A i \in 1..Len(v) : v[i] \in PhoneSyms

\* Faulty variant: /^.{4}$/
isFourSymbols(value) == Len(value) = 4

\* /^\d{4}$/
isFourDigits(value) ==
  Len(value) = 4 /\ \A i \in 1..4 : value[i] \in Digits

\* Faulty variant: the clean object starts as a copy of the payload,
\* { ...payload, fullName: ..., ... }, so id and status of the body pass.
sanitizePayloadSpread(payload) ==
  LET passed == {k \in {"id", "status"} : payload[k].t # "undefined"}
      fallbackTargetGradeIaido ==
        JsNullish(payload.targetGradeIaido, JsNullish(payload.targetGrade, JsString(<<>>)))
      fallbackCurrentGradeIaido ==
        JsNullish(payload.currentGradeIaido, JsNullish(payload.currentGrade, JsString(<<>>)))
      wantsExamIaido == Truthy(JsNullish(payload.wantsExamIaido, payload.wantsExam))
      wantsExamJodo == Truthy(payload.wantsExamJodo)
      Text(v) == Trim(JsToString(JsOr(v, JsString(<<>>))))
  IN [k \in passed |-> JsToString(payload[k])] @@
     [fullName |-> Text(payload.fullName),
      email |-> ToLowerCase(Text(payload.email)),
      phone |-> Text(payload.phone),
      dateOfBirth |-> Text(payload.dateOfBirth),
      city |-> Text(payload.city),
      currentGradeIaido |-> Trim(JsToString(fallbackCurrentGradeIaido)),
      currentGradeJodo |-> Text(payload.currentGradeJodo),
      campType |-> toEnumValue(payload.campType, PRICE_OPTIONS.campType, <<"iaido">>),
      mealPlan |-> toEnumValue(payload.mealPlan, PRICE_OPTIONS.mealPlan, <<"none">>),
      accommodation |->
        toEnumValue(payload.accommodation, PRICE_OPTIONS.accommodation, <<"none">>),
      wantsExamIaido |-> wantsExamIaido,
      targetGradeIaido |->
        IF wantsExamIaido THEN Trim(JsToString(fallbackTargetGradeIaido)) ELSE <<>>,
      wantsExamJodo |-> wantsExamJodo,
      targetGradeJodo |-> IF wantsExamJodo THEN Text(payload.targetGradeJodo) ELSE <<>>,
      billingFullName |-> Text(payload.billingFullName),
      billingZip |-> Text(payload.billingZip),
      billingCity |-> Text(payload.billingCity),
      billingAddress |-> Text(payload.billingAddress),
      billingCountry |->
        Trim(JsToString(JsOr(payload.billingCountry, JsString(<<"Hungary">>)))),
      foodNotes |-> Text(payload.foodNotes),
      privacyConsent |-> Truthy(payload.privacyConsent),
      termsConsent |-> Truthy(payload.termsConsent)]

sanitizePayload(payload) ==
  LET fallbackTargetGradeIaido ==
        JsNullish(payload.targetGradeIaido, JsNullish(payload.targetGrade, JsString(<<>>)))
      fallbackCurrentGradeIaido ==
        JsNullish(payload.currentGradeIaido, JsNullish(payload.currentGrade, JsString(<<>>)))
      wantsExamIaido == Truthy(JsNullish(payload.wantsExamIaido, payload.wantsExam))
      wantsExamJodo == Truthy(payload.wantsExamJodo)
      Text(v) == Trim(JsToString(JsOr(v, JsString(<<>>))))
  IN [fullName |-> Text(payload.fullName),
      email |-> ToLowerCase(Text(payload.email)),
      phone |-> Text(payload.phone),
      dateOfBirth |-> Text(payload.dateOfBirth),
      city |-> Text(payload.city),
      currentGradeIaido |-> Trim(JsToString(fallbackCurrentGradeIaido)),
      currentGradeJodo |-> Text(payload.currentGradeJodo),
      campType |-> toEnumValue(payload.campType, PRICE_OPTIONS.campType, <<"iaido">>),
      mealPlan |-> toEnumValue(payload.mealPlan, PRICE_OPTIONS.mealPlan, <<"none">>),
      accommodation |->
        toEnumValue(payload.accommodation, PRICE_OPTIONS.accommodation, <<"none">>),
      wantsExamIaido |-> wantsExamIaido,
      targetGradeIaido |->
        IF wantsExamIaido THEN Trim(JsToString(fallbackTargetGradeIaido)) ELSE <<>>,
      wantsExamJodo |-> wantsExamJodo,
      targetGradeJodo |-> IF wantsExamJodo THEN Text(payload.targetGradeJodo) ELSE <<>>,
      billingFullName |-> Text(payload.billingFullName),
      billingZip |-> Text(payload.billingZip),
      billingCity |-> Text(payload.billingCity),
      billingAddress |-> Text(payload.billingAddress),
      billingCountry |->
        Trim(JsToString(JsOr(payload.billingCountry, JsString(<<"Hungary">>)))),
      foodNotes |-> Text(payload.foodNotes),
      privacyConsent |-> Truthy(payload.privacyConsent),
      termsConsent |-> Truthy(payload.termsConsent)]

\* the note bound of validateRegistration, in symbols
NOTE_MAX_LENGTH == 4000

\* errors.push(message) when the rule is violated
Check(violated, message) == IF violated THEN <<message>> ELSE <<>>

validateRegistration(data) ==
  LET needsIaidoGrade ==
        data.campType = <<"iaido">> \/ data.campType = <<"both">> \/ data.wantsExamIaido
      needsJodoGrade ==
        data.campType = <<"jodo">> \/ data.campType = <<"both">> \/ data.wantsExamJodo
  IN Check(~isNonEmptyString(data.fullName), "Full name is required.")
     \o Check(~isValidEmail(data.email), "A valid email address is required.")
     \o Check(~isValidPhone(data.phone), "A valid phone number is required.")
     \o Check(~isNonEmptyString(data.city), "City is required.")
     \o Check(needsIaidoGrade /\ ~isNonEmptyString(data.currentGradeIaido),
              "Current Iaido grade is required for the selected option.")
     \o Check(needsJodoGrade /\ ~isNonEmptyString(data.currentGradeJodo),
              "Current Jodo grade is required for the selected option.")
     \o Check(~HasOwnProperty(PRICE_OPTIONS.campType, data.campType),
              "Invalid seminar selection.")
     \o Check(~HasOwnProperty(PRICE_OPTIONS.mealPlan, data.mealPlan),
              "Invalid meal option.")
     \o Check(~HasOwnProperty(PRICE_OPTIONS.accommodation, data.accommodation),
              "Invalid accommodation option.")
     \o Check(data.wantsExamIaido /\ ~isNonEmptyString(data.targetGradeIaido),
              "Iaido target grade is required if Iaido exam is selected.")
     \o Check(data.wantsExamJodo /\ ~isNonEmptyString(data.targetGradeJodo),
              "Jodo target grade is required if Jodo exam is selected.")
     \o Check(data.wantsExamIaido /\ data.campType = <<"jodo">>,
              "Iaido exam can only be selected with Iaido or Iaido + Jodo participation.")
     \o Check(data.wantsExamJodo /\ data.campType = <<"iaido">>,
              "Jodo exam can only be selected with Jodo or Iaido + Jodo participation.")
     \o Check(~isNonEmptyString(data.billingFullName), "Billing full name is required.")
     \o Check(~isFourDigits(data.billingZip), "Billing ZIP code must be 4 digits.")
     \o Check(~isNonEmptyString(data.billingCity), "Billing city is required.")
     \o Check(~isNonEmptyString(data.billingAddress), "Billing address is required.")
     \o Check(~isNonEmptyString(data.billingCountry), "Billing country is required.")
     \o Check(Len(data.foodNotes) > NOTE_MAX_LENGTH, "Note cannot exceed 4000 characters.")
     \o Check(~data.privacyConsent, "Privacy consent is required.")
     \o Check(~data.termsConsent, "Accepting participation terms is required.")

-----------------------------------------------------------------------------
(* The registrations table *)

\* Date.prototype.toISOString of the clock value ms: the date text, of which
\* only the millisecond count varies in the model
toISOString(ms) == <<"iso:">> \o NumberToString(ms)

\* `reg_${randomUUID()}`: the n-th UUID drawn differs from every other one
randomUUID(n) == <<"uuid-">> \o NumberToString(n)

NewRegistrationId(n) == <<"reg_">> \o randomUUID(n)

\* JSON.stringify of a plain object of strings and numbers, and JSON.parse
\* of such a text
JsonStringify(value) == [json |-> value]

JsonParse(text) == text.json

Bit(b) == IF b THEN 1 ELSE 0

\* s || t on strings
StrOr(s, t) == IF s # <<>> THEN s ELSE t

\* the table: rows in rowid order
HasId(table, id) == \E i \in 1..Len(table) : table[i].id = id

\* Faulty variant: the id column without PRIMARY KEY.
SqlInsertNoKey(table, row) == [ok |-> TRUE, table |-> Append(table, row)]

\* INSERT of one row; id is the PRIMARY KEY, so a second row with the same id
\* is a constraint error and inserts nothing
SqlInsert(table, row) ==
  IF HasId(table, row.id)
  THEN [ok |-> FALSE, table |-> table]
  ELSE [ok |-> TRUE, table |-> Append(table, row)]

insertRegistration(table, registration) ==
  LET currentGradeIaido == Trim(registration.currentGradeIaido)
      currentGradeJodo == Trim(registration.currentGradeJodo)
      \* registration.currentGrade is undefined: sanitizePayload has no such key
      currentGradeLegacy == StrOr(currentGradeIaido, StrOr(currentGradeJodo, <<>>))
      wantsExamCombined == registration.wantsExamIaido \/ registration.wantsExamJodo
      targetGradeCombined ==
        StrOr(registration.targetGradeIaido, StrOr(registration.targetGradeJodo, <<>>))
  IN SqlInsert(table,
       [id |-> registration.id,
        created_at |-> registration.createdAt,
        status |-> registration.status,
        amount_huf |-> registration.amountHuf,
        currency |-> registration.currency,
        full_name |-> registration.fullName,
        email |-> registration.email,
        phone |-> registration.phone,
        date_of_birth |-> registration.dateOfBirth,
        city |-> registration.city,
        current_grade |-> currentGradeLegacy,
        current_grade_iaido |-> currentGradeIaido,
        current_grade_jodo |-> currentGradeJodo,
        camp_type |-> registration.campType,
        meal_plan |-> registration.mealPlan,
        accommodation |-> registration.accommodation,
        wants_exam |-> Bit(wantsExamCombined),
        target_grade |-> targetGradeCombined,
        wants_exam_iaido |-> Bit(registration.wantsExamIaido),
        target_grade_iaido |-> registration.targetGradeIaido,
        wants_exam_jodo |-> Bit(registration.wantsExamJodo),
        target_grade_jodo |-> registration.targetGradeJodo,
        billing_full_name |-> registration.billingFullName,
        billing_zip |-> registration.billingZip,
        billing_city |-> registration.billingCity,
        billing_address |-> registration.billingAddress,
        billing_country |-> registration.billingCountry,
        food_notes |-> registration.foodNotes,
        price_breakdown |-> JsonStringify(registration.priceBreakdown),
        privacy_consent |-> Bit(registration.privacyConsent),
        terms_consent |-> Bit(registration.termsConsent),
        privacy_policy_version |-> StrOr(registration.privacyPolicyVersion, <<>>),
        terms_version |-> StrOr(registration.termsVersion, <<>>),
        privacy_consent_at |-> StrOr(registration.privacyConsentAt, <<>>),
        terms_consent_at |-> StrOr(registration.termsConsentAt, <<>>)])

\* Faulty variant: the statement of a mark-paid operation, which writes PAID
\* whatever status it is handed.
updateRegistrationStatusPaid(table, registrationId, status) ==
  [table |-> [i \in 1..Len(table) |->
                IF table[i].id = registrationId
                THEN [table[i] EXCEPT !.status = <<"PAID">>]
                ELSE table[i]],
   changes |-> Cardinality({i \in 1..Len(table) : table[i].id = registrationId})]

\* Faulty variant: a second mark-deleted on a DELETED row undoes the first.
updateRegistrationStatusToggle(table, registrationId, status) ==
  [table |-> [i \in 1..Len(table) |->
                IF table[i].id = registrationId
                THEN [table[i] EXCEPT
                        !.status = IF table[i].status = status
                                   THEN <<"PENDING_PAYMENT">> ELSE status]
                ELSE table[i]],
   changes |-> Cardinality({i \in 1..Len(table) : table[i].id = registrationId})]

\* Faulty variant: the two parameters bound in the wrong order,
\* .run(registrationId, status).
updateRegistrationStatusSwapped(table, registrationId, status) ==
  [table |-> [i \in 1..Len(table) |->
                IF table[i].id = status
                THEN [table[i] EXCEPT !.status = registrationId]
                ELSE table[i]],
   changes |-> Cardinality({i \in 1..Len(table) : table[i].id = status})]

\* UPDATE ... WHERE id = ?: changes counts the rows the WHERE matches, whether
\* or not the new values differ from the old ones
updateRegistrationStatus(table, registrationId, status) ==
  [table |-> [i \in 1..Len(table) |->
                IF table[i].id = registrationId
                THEN [table[i] EXCEPT !.status = status]
                ELSE table[i]],
   changes |-> Cardinality({i \in 1..Len(table) : table[i].id = registrationId})]

\* Faulty variant: WHERE id = ? AND status <> 'ANONYMIZED'.
anonymizeRegistrationOnce(table, registrationId) ==
  LET anonymizedEmail == <<"anonymized-">> \o registrationId \o <<"@example.invalid">>
      Hit(i) == table[i].id = registrationId /\ table[i].status # <<"ANONYMIZED">>
  IN [table |-> [i \in 1..Len(table) |->
                   IF Hit(i)
                   THEN [table[i] EXCEPT
                           !.status = <<"ANONYMIZED">>,
                           !.full_name = <<"ANONYMIZED">>,
                           !.email = anonymizedEmail,
                           !.phone = <<>>,
                           !.date_of_birth = <<>>,
                           !.city = <<>>,
                           !.billing_full_name = <<>>,
                           !.billing_zip = <<>>,
                           !.billing_city = <<>>,
                           !.billing_address = <<>>,
                           !.billing_country = <<>>,
                           !.food_notes = <<>>]
                   ELSE table[i]],
      changes |-> Cardinality({i \in 1..Len(table) : Hit(i)})]

\* Faulty variant: the food note is not in the SET list.
anonymizeRegistrationKeepsNote(table, registrationId) ==
  LET anonymizedEmail == <<"anonymized-">> \o registrationId \o <<"@example.invalid">>
  IN [table |-> [i \in 1..Len(table) |->
                   IF table[i].id = registrationId
                   THEN [table[i] EXCEPT
                           !.status = <<"ANONYMIZED">>,
                           !.full_name = <<"ANONYMIZED">>,
                           !.email = anonymizedEmail,
                           !.phone = <<>>,
                           !.date_of_birth = <<>>,
                           !.city = <<>>,
                           !.billing_full_name = <<>>,
                           !.billing_zip = <<>>,
                           !.billing_city = <<>>,
                           !.billing_address = <<>>,
                           !.billing_country = <<>>]
                   ELSE table[i]],
      changes |-> Cardinality({i \in 1..Len(table) : table[i].id = registrationId})]

anonymizeRegistration(table, registrationId) ==
  LET anonymizedEmail == <<"anonymized-">> \o registrationId \o <<"@example.invalid">>
  IN [table |-> [i \in 1..Len(table) |->
                   IF table[i].id = registrationId
                   THEN [table[i] EXCEPT
                           !.status = <<"ANONYMIZED">>,
                           !.full_name = <<"ANONYMIZED">>,
                           !.email = anonymizedEmail,
                           !.phone = <<>>,
                           !.date_of_birth = <<>>,
                           !.city = <<>>,
                           !.billing_full_name = <<>>,
                           !.billing_zip = <<>>,
                           !.billing_city = <<>>,
                           !.billing_address = <<>>,
                           !.billing_country = <<>>,
                           !.food_notes = <<>>]
                   ELSE table[i]],
      changes |-> Cardinality({i \in 1..Len(table) : table[i].id = registrationId})]

\* The table is created with every column of the current schema (lines
\* 1042-1079), so the ALTER TABLE branches add nothing, and every insert of the
\* program binds a string to each TEXT column, so COALESCE(x, '') is x.  What
\* runs on every start is the two backfill UPDATEs.  A table of the earlier
\* schema is modelled with the added columns at their defaults (OldRow).
BackfillExam(row) ==
  IF row.wants_exam = 1 /\ row.wants_exam_iaido = 0 /\ row.wants_exam_jodo = 0
  THEN [row EXCEPT
          !.wants_exam_iaido = IF row.wants_exam = 1 THEN 1 ELSE row.wants_exam_iaido,
          !.target_grade_iaido =
             IF row.wants_exam = 1 /\ row.target_grade_iaido = <<>>
             THEN row.target_grade
             ELSE row.target_grade_iaido]
  ELSE row

\* Faulty variant: the UPDATE without its WHERE clause.
BackfillCurrentGradeAlways(row) ==
  [row EXCEPT !.current_grade_iaido = row.current_grade]

BackfillCurrentGrade(row) ==
  IF row.current_grade_iaido = <<>>
  THEN [row EXCEPT
          !.current_grade_iaido =
             IF row.current_grade_iaido = <<>> THEN row.current_grade
             ELSE row.current_grade_iaido]
  ELSE row

\* Faulty variant: a third backfill that stamps rows without a policy version
\* with the version in force.
ensureRegistrationColumnsStamp(table) ==
  [i \in 1..Len(table) |->
     LET row == BackfillCurrentGrade(BackfillExam(table[i]))
     IN [row EXCEPT !.privacy_policy_version =
                       StrOr(row.privacy_policy_version, PRIVACY_POLICY_VERSION)]]

ensureRegistrationColumns(table) ==
  [i \in 1..Len(table) |-> BackfillCurrentGrade(BackfillExam(table[i]))]

\* Number(v) of a number
JsToNumber(v) == v.n

\* One pass of the loop body of the legacy import (lines 1196-1249): the row
\* bound for `item`, with the n-th UUID standing by for a missing id.
LegacyRow(item, nowMs, n) ==
  LET pricing ==
        calculatePricing(
          [campType |-> JsOr(item.campType, JsString(<<"iaido">>)),
           mealPlan |-> JsOr(item.mealPlan, JsString(<<"none">>)),
           accommodation |-> JsOr(item.accommodation, JsString(<<"none">>))])
      wantsExamIaido == Truthy(JsNullish(item.wantsExamIaido, item.wantsExam))
      wantsExamJodo == Truthy(item.wantsExamJodo)
      currentGradeIaido ==
        JsToString(JsOr(item.currentGradeIaido, JsOr(item.currentGrade, JsString(<<>>))))
      currentGradeJodo == JsToString(JsOr(item.currentGradeJodo, JsString(<<>>)))
      currentGradeLegacy == StrOr(currentGradeIaido, currentGradeJodo)
      targetGradeIaido ==
        IF wantsExamIaido
        THEN JsToString(JsOr(item.targetGradeIaido, JsOr(item.targetGrade, JsString(<<>>))))
        ELSE <<>>
      targetGradeJodo ==
        IF wantsExamJodo THEN JsToString(JsOr(item.targetGradeJodo, JsString(<<>>)))
        ELSE <<>>
      wantsExamCombined == wantsExamIaido \/ wantsExamJodo
      targetGradeCombined == StrOr(targetGradeIaido, targetGradeJodo)
      Text(v) == JsToString(JsOr(v, JsString(<<>>)))
  IN [id |-> JsToString(JsOr(item.id, JsString(NewRegistrationId(n)))),
      created_at |-> JsToString(JsOr(item.createdAt, JsString(toISOString(nowMs)))),
      status |-> JsToString(JsOr(item.status, JsString(<<"PENDING_PAYMENT">>))),
      amount_huf |-> JsToNumber(JsOr(item.amountHuf, JsNumber(pricing.totalHuf))),
      currency |-> JsToString(JsOr(item.currency, JsString(pricing.currency))),
      full_name |-> Text(item.fullName),
      email |-> Text(item.email),
      phone |-> Text(item.phone),
      date_of_birth |-> Text(item.dateOfBirth),
      city |-> Text(item.city),
      current_grade |-> currentGradeLegacy,
      current_grade_iaido |-> currentGradeIaido,
      current_grade_jodo |-> currentGradeJodo,
      camp_type |-> pricing.selection.campType,
      meal_plan |-> pricing.selection.mealPlan,
      accommodation |-> pricing.selection.accommodation,
      wants_exam |-> Bit(wantsExamCombined),
      target_grade |-> targetGradeCombined,
      wants_exam_iaido |-> Bit(wantsExamIaido),
      target_grade_iaido |-> targetGradeIaido,
      wants_exam_jodo |-> Bit(wantsExamJodo),
      target_grade_jodo |-> targetGradeJodo,
      billing_full_name |-> Text(item.billingFullName),
      billing_zip |-> Text(item.billingZip),
      billing_city |-> Text(item.billingCity),
      billing_address |-> Text(item.billingAddress),
      billing_country |-> JsToString(JsOr(item.billingCountry, JsString(<<"Hungary">>))),
      food_notes |-> Text(item.foodNotes),
      price_breakdown |-> JsonStringify(pricing),
      privacy_consent |-> Bit(Truthy(item.privacyConsent)),
      terms_consent |-> Bit(Truthy(item.termsConsent)),
      privacy_policy_version |-> Text(item.privacyPolicyVersion),
      terms_version |-> Text(item.termsVersion),
      privacy_consent_at |-> Text(item.privacyConsentAt),
      terms_consent_at |-> Text(item.termsConsentAt)]

\* the for loop inside BEGIN ... COMMIT: stops at the first insert that fails.
\* LegacyInsertAll binds and inserts the head of `items`, LegacyInsertRest
\* goes on after the insert `ins`, `used` UUIDs drawn so far.
RECURSIVE LegacyInsertAll(_, _, _, _)
RECURSIVE LegacyInsertRest(_, _, _, _)
LegacyInsertRest(ins, items, nowMs, used) ==
  IF ins.ok THEN LegacyInsertAll(ins.table, items, nowMs, used)
  ELSE [ok |-> FALSE, table |-> ins.table, uuids |-> used]

LegacyInsertAll(table, items, nowMs, n) ==
  IF items = <<>> THEN [ok |-> TRUE, table |-> table, uuids |-> n]
  ELSE LegacyInsertRest(SqlInsert(table, LegacyRow(Head(items), nowMs, n + 1)),
                        Tail(items), nowMs,
                        IF Truthy(Head(items).id) THEN n ELSE n + 1)

\* the legacy file: absent, or a text that parses to an array of records, or
\* any other text (parsed = FALSE: not JSON, or JSON that is no array)
NoLegacyFile == [exists |-> FALSE, parsed |-> FALSE, items |-> <<>>]

LegacyFileOf(items) == [exists |-> TRUE, parsed |-> TRUE, items |-> items]

CorruptLegacyFile == [exists |-> TRUE, parsed |-> FALSE, items |-> <<>>]

\* Faulty variant: no ROLLBACK before the throw.
LegacyCommitKeepsRows(run, table) == run

\* COMMIT, or ROLLBACK to `table` and the throw of 'Legacy JSON migration
\* failed.' (ok = FALSE), after the loop ended as `run`
LegacyCommit(run, table) ==
  IF run.ok THEN run ELSE [ok |-> FALSE, table |-> table, uuids |-> run.uuids]

\* the array read from the file: [] when the text does not parse to an array
LegacyArray(file) == IF file.parsed THEN file.items ELSE <<>>

\* Faulty variant: the rows of the table are not counted.
migrateLegacyJsonIfNeededAlways(table, file, nowMs, n) ==
  IF ~file.exists \/ Len(LegacyArray(file)) = 0
  THEN [ok |-> TRUE, table |-> table, uuids |-> n]
  ELSE LegacyCommit(LegacyInsertAll(table, LegacyArray(file), nowMs, n), table)

migrateLegacyJsonIfNeeded(table, file, nowMs, n) ==
  IF ~file.exists \/ Len(table) > 0 \/ Len(LegacyArray(file)) = 0
  THEN [ok |-> TRUE, table |-> table, uuids |-> n]
  ELSE LegacyCommit(LegacyInsertAll(table, LegacyArray(file), nowMs, n), table)

\* initDatabase after the CREATE TABLE IF NOT EXISTS
initDatabase(table, file, nowMs, n) ==
  migrateLegacyJsonIfNeeded(ensureRegistrationColumns(table), file, nowMs, n)

-----------------------------------------------------------------------------
(* Reading *)

mapRegistrationRow(row) ==
  LET currentGradeIaido == StrOr(row.current_grade_iaido, StrOr(row.current_grade, <<>>))
      currentGradeJodo == StrOr(row.current_grade_jodo, <<>>)
      wantsExamIaido ==
        row.wants_exam_iaido = 1 \/ (row.wants_exam = 1 /\ row.wants_exam_jodo # 1)
      wantsExamJodo == row.wants_exam_jodo = 1
      targetGradeIaido ==
        IF wantsExamIaido
        THEN StrOr(row.target_grade_iaido, StrOr(row.target_grade, <<>>))
        ELSE StrOr(row.target_grade_iaido, <<>>)
      targetGradeJodo == StrOr(row.target_grade_jodo, <<>>)
  IN [id |-> row.id,
      createdAt |-> row.created_at,
      status |-> row.status,
      amountHuf |-> row.amount_huf,
      currency |-> row.currency,
      fullName |-> row.full_name,
      email |-> row.email,
      phone |-> row.phone,
      dateOfBirth |-> StrOr(row.date_of_birth, <<>>),
      city |-> row.city,
      currentGradeIaido |-> currentGradeIaido,
      currentGradeJodo |-> currentGradeJodo,
      currentGrade |-> StrOr(currentGradeIaido, StrOr(currentGradeJodo, StrOr(row.current_grade, <<>>))),
      campType |-> StrOr(row.camp_type, <<"iaido">>),
      mealPlan |-> StrOr(row.meal_plan, <<"none">>),
      accommodation |-> StrOr(row.accommodation, <<"none">>),
      wantsExamIaido |-> wantsExamIaido,
      targetGradeIaido |-> targetGradeIaido,
      wantsExamJodo |-> wantsExamJodo,
      targetGradeJodo |-> targetGradeJodo,
      wantsExam |-> wantsExamIaido \/ wantsExamJodo \/ row.wants_exam = 1,
      targetGrade |-> StrOr(targetGradeIaido, StrOr(targetGradeJodo, StrOr(row.target_grade, <<>>))),
      billingFullName |-> row.billing_full_name,
      billingZip |-> row.billing_zip,
      billingCity |-> row.billing_city,
      billingAddress |-> row.billing_address,
      billingCountry |-> row.billing_country,
      foodNotes |-> StrOr(row.food_notes, <<>>),
      priceBreakdown |-> JsonParse(row.price_breakdown),
      privacyConsent |-> row.privacy_consent = 1,
      termsConsent |-> row.terms_consent = 1,
      privacyPolicyVersion |-> StrOr(row.privacy_policy_version, <<>>),
      termsVersion |-> StrOr(row.terms_version, <<>>),
      privacyConsentAt |-> StrOr(row.privacy_consent_at, <<>>),
      termsConsentAt |-> StrOr(row.terms_consent_at, <<>>)]

MsPerSecond == 1000

RECURSIVE ParseDigits(_, _)
ParseDigits(s, n) ==
  IF s = <<>> THEN n
  ELSE ParseDigits(Tail(s),
                   10 * n + (CHOOSE d \in 0..9 : DigitSym[d + 1] = Head(s)))

\* Faulty variant: the text is compared in full, milliseconds included.
datetimeMillis(text) ==
  IF Len(text) >= 2 /\ Head(text) = "iso:"
     /\ \A i \in 2..Len(text) : \E d \in 1..10 : DigitSym[d] = text[i]
  THEN ParseDigits(Tail(text), 0)
  ELSE -1

\* SQLite datetime(text) as a sort key: the whole seconds of a time stamp
\* (the fraction is dropped), and NULL, which ORDER BY ... ASC puts first, for
\* a text that is no time stamp
datetime(text) ==
  IF Len(text) >= 2 /\ Head(text) = "iso:"
     /\ \A i \in 2..Len(text) : \E d \in 1..10 : DigitSym[d] = text[i]
  THEN ParseDigits(Tail(text), 0) \div MsPerSecond
  ELSE -1

\* ORDER BY datetime(created_at) ASC, rowid ASC: the place of row i
OrderByPlace(table, i) ==
  1 + Cardinality({j \in 1..Len(table) :
                     \/ datetime(table[j].created_at) < datetime(table[i].created_at)
                     \/ /\ datetime(table[j].created_at) = datetime(table[i].created_at)
                        /\ j < i})

readRegistrations(table) ==
  [p \in 1..Len(table) |->
     mapRegistrationRow(table[CHOOSE i \in 1..Len(table) : OrderByPlace(table, i) = p])]

\* array.filter(...).length over the indices in `of`
CountIn(registrations, of, Pred(_)) ==
  Cardinality({i \in of : Pred(registrations[i])})

\* the reduce of getStats that counts the registrations with index in `of`
\* under their key, skipping empty keys
CountBy(registrations, of, Key(_)) ==
  LET keys == {Key(registrations[i]) : i \in of} \ {<<>>}
  IN [k \in keys |-> Cardinality({i \in of : Key(registrations[i]) = k})]

RECURSIVE SumAmountHuf(_, _)
\* Faulty variant: the accumulator is dropped, the last amount is the sum.
SumAmountHufRestarting(registrations, sum) ==
  IF registrations = <<>> THEN sum
  ELSE registrations[Len(registrations)].amountHuf
SumAmountHuf(registrations, sum) ==
  IF registrations = <<>> THEN sum
  ELSE SumAmountHuf(Tail(registrations), sum + Head(registrations).amountHuf)

JsNull == [t |-> "null", s |-> <<>>, b |-> FALSE, n |-> 0]

getStats(registrations) ==
  LET IsActive(r) == r.status # <<"DELETED">> /\ r.status # <<"ANONYMIZED">>
      activeRegistrations == SelectSeq(registrations, IsActive)
      active == DOMAIN activeRegistrations
      byCampType == CountBy(activeRegistrations, active, LAMBDA r : r.campType)
      Of(counts, k) == IF k \in DOMAIN counts THEN counts[k] ELSE 0
  IN [total |-> Len(activeRegistrations),
      deletedCount |->
        CountIn(registrations, DOMAIN registrations, LAMBDA r : r.status = <<"DELETED">>),
      anonymizedCount |->
        CountIn(registrations, DOMAIN registrations, LAMBDA r : r.status = <<"ANONYMIZED">>),
      wantsExamIaido |-> CountIn(activeRegistrations, active, LAMBDA r : r.wantsExamIaido),
      wantsExamJodo |-> CountIn(activeRegistrations, active, LAMBDA r : r.wantsExamJodo),
      wantsExamTotal |->
        CountIn(activeRegistrations, active, LAMBDA r : r.wantsExamIaido \/ r.wantsExamJodo),
      pendingPayment |->
        CountIn(activeRegistrations, active, LAMBDA r : r.status = <<"PENDING_PAYMENT">>),
      paid |-> CountIn(activeRegistrations, active, LAMBDA r : r.status = <<"PAID">>),
      projectedRevenueHuf |-> SumAmountHuf(activeRegistrations, 0),
      byCampType |-> byCampType,
      iaidoApplicants |-> Of(byCampType, <<"iaido">>) + Of(byCampType, <<"both">>),
      jodoApplicants |-> Of(byCampType, <<"jodo">>) + Of(byCampType, <<"both">>),
      byCurrentGrade |->
        CountBy(activeRegistrations, active, LAMBDA r : r.currentGradeIaido),
      byCurrentGradeIaido |->
        CountBy(activeRegistrations, active, LAMBDA r : r.currentGradeIaido),
      byCurrentGradeJodo |->
        CountBy(activeRegistrations, active, LAMBDA r : r.currentGradeJodo),
      byTargetGradeIaido |->
        CountBy(activeRegistrations,
                {i \in active : activeRegistrations[i].wantsExamIaido},
                LAMBDA r : r.targetGradeIaido),
      byTargetGradeJodo |->
        CountBy(activeRegistrations,
                {i \in active : activeRegistrations[i].wantsExamJodo},
                LAMBDA r : r.targetGradeJodo),
      lastRegistrationAt |->
        IF Len(activeRegistrations) > 0
        THEN JsString(activeRegistrations[Len(activeRegistrations)].createdAt)
        ELSE JsNull]

RECURSIVE DoubleQuotes(_)
DoubleQuotes(s) ==
  IF s = <<>> THEN <<>>
  ELSE (IF Head(s) = "\"" THEN <<"\"", "\"">> ELSE <<Head(s)>>) \o DoubleQuotes(Tail(s))

\* Faulty variant: the value is wrapped in quotes as it is.
escapeCsvValueNoDoubling(stringValue) ==
  IF \E i \in 1..Len(stringValue) : stringValue[i] \in {"\"", ",", "\n", "\r"}
  THEN <<"\"">> \o stringValue \o <<"\"">>
  ELSE stringValue

\* on String(value ?? '')
escapeCsvValue(stringValue) ==
  IF \E i \in 1..Len(stringValue) : stringValue[i] \in {"\"", ",", "\n", "\r"}
  THEN <<"\"">> \o DoubleQuotes(stringValue) \o <<"\"">>
  ELSE stringValue

\* row.map(escapeCsvValue).join(',')
RECURSIVE CsvJoin(_)
CsvJoin(values) ==
  IF values = <<>> THEN <<>>
  ELSE IF Len(values) = 1 THEN escapeCsvValue(Head(values))
  ELSE escapeCsvValue(Head(values)) \o <<",">> \o CsvJoin(Tail(values))

CsvHeaders ==
  <<"id", "created_at", "status", "full_name", "email", "phone", "city",
    "current_grade_iaido", "current_grade_jodo", "camp_type", "meal_plan",
    "accommodation", "wants_exam_iaido", "target_grade_iaido", "wants_exam_jodo",
    "target_grade_jodo", "camp_price_eur", "meal_price_eur",
    "accommodation_price_eur", "amount_eur", "currency", "billing_full_name",
    "billing_zip", "billing_city", "billing_address", "billing_country",
    "food_notes", "privacy_consent", "terms_consent", "privacy_policy_version",
    "terms_version", "privacy_consent_at", "terms_consent_at">>

\* the array `row` of buildCsvExport, each value under String(value ?? '')
CsvRow(registration) ==
  LET lineItems == registration.priceBreakdown.lineItems
      PriceOf(key) ==
        IF \E i \in DOMAIN lineItems : lineItems[i].key = key
        THEN NumberToString(
               lineItems[CHOOSE i \in DOMAIN lineItems :
                           /\ lineItems[i].key = key
                           /\ \A j \in 1..(i - 1) : lineItems[j].key # key].amountHuf)
        ELSE <<>>
      TrueFalse(b) == IF b THEN <<"true">> ELSE <<"false">>
  IN <<registration.id, registration.createdAt, registration.status,
       registration.fullName, registration.email, registration.phone,
       registration.city, registration.currentGradeIaido,
       registration.currentGradeJodo, registration.campType,
       registration.mealPlan, registration.accommodation,
       TrueFalse(registration.wantsExamIaido), registration.targetGradeIaido,
       TrueFalse(registration.wantsExamJodo), registration.targetGradeJodo,
       PriceOf("campType"), PriceOf("mealPlan"), PriceOf("accommodation"),
       NumberToString(registration.amountHuf), registration.currency,
       registration.billingFullName, registration.billingZip,
       registration.billingCity, registration.billingAddress,
       registration.billingCountry, registration.foodNotes,
       TrueFalse(registration.privacyConsent), TrueFalse(registration.termsConsent),
       registration.privacyPolicyVersion, registration.termsVersion,
       registration.privacyConsentAt, registration.termsConsentAt>>

\* csvRows.join('\n') and the closing '\n': every row ends with a line feed
RECURSIVE CsvLines(_)
CsvLines(csvRows) ==
  IF csvRows = <<>> THEN <<>>
  ELSE Head(csvRows) \o <<"\n">> \o CsvLines(Tail(csvRows))

buildCsvExport(registrations) ==
  <<"\\uFEFF">>
  \o CsvLines(<<CsvJoin([i \in 1..Len(CsvHeaders) |-> <<CsvHeaders[i]>>])>>
              \o [i \in 1..Len(registrations) |-> CsvJoin(CsvRow(registrations[i]))])

-----------------------------------------------------------------------------
(* Admin session *)

\* A token is the list of its dot-separated segments.  The payload segment is
\* the base64url text of a JSON object; createHmac(key).update(msg) is a value
\* that two calls share only for the same key and the same message.
Base64UrlJson(object) == [kind |-> "b64json", object |-> object]

EmptySegment == [kind |-> "empty"]

Hmac(key, message) == [kind |-> "hmac", key |-> key, message |-> message]

signSessionPayload(encodedPayload) == Hmac(ADMIN_SESSION_SECRET, encodedPayload)

\* Faulty variant: the expiry is written in milliseconds.
buildAdminSessionTokenMillis(nowMs) ==
  LET payload == [username |-> JsString(ADMIN_USERNAME),
                  exp |-> JsNumber(nowMs + ADMIN_SESSION_TTL_SECONDS * MsPerSecond)]
      encodedPayload == Base64UrlJson(payload)
  IN <<encodedPayload, signSessionPayload(encodedPayload)>>

buildAdminSessionToken(nowMs) ==
  LET payload == [username |-> JsString(ADMIN_USERNAME),
                  exp |-> JsNumber((nowMs \div MsPerSecond) + ADMIN_SESSION_TTL_SECONDS)]
      encodedPayload == Base64UrlJson(payload)
  IN <<encodedPayload, signSessionPayload(encodedPayload)>>

\* the Cookie header: no admin_session cookie, one carrying `token`, or a
\* header in which some cookie's value is not a percent-encoding
NoCookie == [has |-> FALSE, token |-> <<>>, malformed |-> FALSE]

CookieOf(token) == [has |-> TRUE, token |-> token, malformed |-> FALSE]

MalformedCookie == [has |-> TRUE, token |-> <<>>, malformed |-> TRUE]

\* parseCookies decodes every cookie of the header with decodeURIComponent,
\* which throws a URIError on a malformed percent-encoding
parseCookiesThrows(cookie) == cookie.malformed

\* Faulty variant: the expiry of the payload is not looked at.
verifyAdminSessionTokenNoExpiry(cookie, nowMs) ==
  LET token == cookie.token
      encodedPayload == token[1]
      signature == token[2]
      payload == encodedPayload.object
  IN /\ cookie.has
     /\ Len(token) >= 2
     /\ encodedPayload # EmptySegment /\ signature # EmptySegment /\ Len(token) = 2
     /\ signature = signSessionPayload(encodedPayload)
     /\ encodedPayload.kind = "b64json"
     /\ payload.username = JsString(ADMIN_USERNAME)
     /\ payload.exp.t = "number"

verifyAdminSessionToken(cookie, nowMs) ==
  LET token == cookie.token
      encodedPayload == token[1]
      signature == token[2]
      payload == encodedPayload.object
  IN /\ cookie.has
     /\ Len(token) >= 2
     /\ encodedPayload # EmptySegment /\ signature # EmptySegment /\ Len(token) = 2
     /\ signature = signSessionPayload(encodedPayload)
     /\ encodedPayload.kind = "b64json"
     /\ payload.username = JsString(ADMIN_USERNAME)
     /\ payload.exp.t = "number"
     /\ ~(payload.exp.n < nowMs \div MsPerSecond)

\* Faulty variant: any session cookie passes.
isAdminAuthenticatedByCookie(cookie, nowMs) == cookie.has /\ ~cookie.malformed

isAdminAuthenticated(cookie, nowMs) == verifyAdminSessionToken(cookie, nowMs)

-----------------------------------------------------------------------------
(* Busy retry *)

\* what the store throws when another connection holds the write lock, and
\* what it throws on a constraint violation
BusyErrors ==
  {[code |-> <<"ERR_SQLITE_ERROR">>, message |-> <<"database is locked">>],
   [code |-> <<"SQLITE_BUSY">>, message |-> <<"busy">>]}

ConstraintError ==
  [code |-> <<"ERR_SQLITE_ERROR">>,
   message |-> <<"UNIQUE constraint failed: registrations.id">>]

NoError == [code |-> <<>>, message |-> <<>>]

\* an error of the store that is not lock contention
IoError == [code |-> <<"ERR_SQLITE_ERROR">>, message |-> <<"disk I/O error">>]

\* new Error('SQLite retry exhausted.') below the loop of runWithSqliteRetry
RetryExhaustedError == [code |-> <<>>, message |-> <<"SQLite retry exhausted.">>]

\* /phrase/i.test(message)
TestIgnoreCase(phrase, message) ==
  \E i \in 1..Len(message) : ToLowerCase(message)[i] = phrase

isSqliteBusyError(error) ==
  \/ error.code = <<"SQLITE_BUSY">>
  \/ error.code = <<"SQLITE_LOCKED">>
  \/ TestIgnoreCase("database is locked", error.message)
  \/ TestIgnoreCase("database is busy", error.message)

\* Faulty variant: the catch block does not look at the attempt number.
shouldRetryAlways(error, attempt) == isSqliteBusyError(error)

\* Faulty variant: the budget is three attempts.
shouldRetryThrice(error, attempt) ==
  isSqliteBusyError(error) /\ attempt < 3

\* the catch block of runWithSqliteRetry: sleep and go round again, or throw
shouldRetry(error, attempt) ==
  isSqliteBusyError(error) /\ attempt < SQLITE_RETRY_MAX_ATTEMPTS

\* Faulty variant: the delay doubles with every attempt.
retryDelayDoubling(attempt) == SQLITE_RETRY_BASE_DELAY_MS * 2 ^ (attempt - 1)

retryDelay(attempt) == SQLITE_RETRY_BASE_DELAY_MS * attempt

-----------------------------------------------------------------------------
(* Requests *)

\* the object literal of the register route (lines 2053-2065); ...cleanBody
\* comes last, so a key of cleanBody overrides the key written before it
newRegistration(cleanBody, pricing, id, nowMs) ==
  cleanBody @@
  [id |-> id,
   createdAt |-> toISOString(nowMs),
   status |-> <<"PENDING_PAYMENT">>,
   amountHuf |-> pricing.totalHuf,
   currency |-> pricing.currency,
   priceBreakdown |-> pricing,
   privacyPolicyVersion |-> PRIVACY_POLICY_VERSION,
   termsVersion |-> TERMS_VERSION,
   privacyConsentAt |-> IF cleanBody.privacyConsent THEN toISOString(nowMs) ELSE <<>>,
   termsConsentAt |-> IF cleanBody.termsConsent THEN toISOString(nowMs) ELSE <<>>]

\* String(body.registrationId || '').trim()
registrationIdOf(body) == Trim(JsToString(JsOr(body.registrationId, JsString(<<>>))))

\* the operation the route hands to runWithSqliteRetry, run once on `table`
operation(table, r) ==
  CASE r.op = "register" ->
         LET ins == insertRegistration(table, r.reg)
         IN [table |-> ins.table,
             error |-> IF ins.ok THEN NoError ELSE ConstraintError,
             changes |-> 0]
    [] r.op = "mark-deleted" ->
         LET upd == updateRegistrationStatus(table, r.rid, <<"DELETED">>)
         IN [table |-> upd.table, error |-> NoError, changes |-> upd.changes]
    [] r.op = "anonymize" ->
         LET upd == anonymizeRegistration(table, r.rid)
         IN [table |-> upd.table, error |-> NoError, changes |-> upd.changes]

\* one attempt: the store throws `fault` before it writes anything, or runs
\* the statement
runAttempt(table, r, fault) ==
  IF fault # NoError THEN [table |-> table, error |-> fault, changes |-> 0]
  ELSE operation(table, r)

\* Faulty variant: the catch block without the busy branch.
statusAfterNoBusy(op, res) ==
  IF res.error # NoError THEN 400
  ELSE IF op = "register" THEN 201
  ELSE IF res.changes = 0 THEN 404 ELSE 200

\* the status code the route sends once runWithSqliteRetry returned or threw
statusAfter(op, res) ==
  IF res.error # NoError
  THEN IF isSqliteBusyError(res.error) THEN 503 ELSE 400
  ELSE IF op = "register" THEN 201
  ELSE IF res.changes = 0 THEN 404 ELSE 200

Terminal == {<<"DELETED">>, <<"ANONYMIZED">>}

TerminalIds(table) == {table[i].id : i \in {j \in 1..Len(table) : table[j].status \in Terminal}}

-----------------------------------------------------------------------------
(* Inputs *)

\* the connections that carry a request
Slots == {1}

Str(sym) == JsString(<<sym>>)

BaseFields ==
  [fullName |-> JsString(<<" ", "A">>),
   email |-> JsString(<<"A", "@", "b", ".", "c">>),
   phone |-> JsString(<<"+", "1", "2", "3", "4", "5", "6">>),
   city |-> Str("C"),
   billingFullName |-> Str("A"),
   billingZip |-> JsString(<<"1", "2", "3", "4">>),
   billingCity |-> Str("C"),
   billingAddress |-> Str("street"),
   privacyConsent |-> JsBoolean(TRUE),
   termsConsent |-> JsBoolean(TRUE)]

IaidoFields ==
  [campType |-> Str("iaido"), currentGradeIaido |-> Str("1dan")] @@ BaseFields

JodoFields ==
  [campType |-> JsString(<<" ", "jodo">>), currentGradeJodo |-> Str("2kyu"),
   mealPlan |-> Str("lunch")] @@ BaseFields

BothFields ==
  [campType |-> Str("both"), currentGradeIaido |-> Str("4dan"),
   currentGradeJodo |-> Str("1kyu"), wantsExamIaido |-> JsBoolean(TRUE),
   targetGradeIaido |-> Str("5dan"), wantsExamJodo |-> JsBoolean(FALSE),
   accommodation |-> Str("dojo"), foodNotes |-> Str("vegan")] @@ BaseFields

\* a body that tries to set what the server decides, with an unknown camp type
ForgedFields ==
  [campType |-> Str("karate"), id |-> Str("L1"), status |-> Str("PAID"),
   amountHuf |-> JsNumber(1), currency |-> Str("HUF"),
   createdAt |-> Str("1999"), privacyPolicyVersion |-> Str("1999"),
   termsVersion |-> Str("1999")] @@ IaidoFields

ValidBodies == {JsObject(BothFields), JsObject(ForgedFields)}

InvalidBodies ==
  {JsObject(<<>>),
   JsObject([fullName |-> Str(" "), billingZip |-> JsString(<<"1", "2", "3">>)]
            @@ IaidoFields),
   JsObject([wantsExamIaido |-> JsBoolean(TRUE), targetGradeIaido |-> Str("5dan"),
             currentGradeIaido |-> Str("4dan")] @@ JodoFields),
   JsObject([termsConsent |-> JsString(<<>>)] @@ BothFields)}

RegisterBodies == ValidBodies \cup InvalidBodies

LegacyOne ==
  JsObject([id |-> Str("L1"), createdAt |-> JsString(toISOString(0)), amountHuf |-> JsNumber(59000),
            currency |-> Str("HUF"), fullName |-> Str("A"), email |-> Str("a@b.c"),
            currentGrade |-> Str("3dan"), wantsExam |-> JsBoolean(TRUE),
            targetGrade |-> Str("4dan"), privacyConsent |-> JsBoolean(TRUE)])

LegacyTwo ==
  JsObject([id |-> Str("L2"), status |-> Str("PAID"), campType |-> Str("jodo"),
            accommodation |-> Str("guesthouse"), fullName |-> Str("B"),
            currentGradeJodo |-> Str("1kyu"), wantsExamJodo |-> JsBoolean(TRUE),
            targetGradeJodo |-> Str("1dan")])

\* a record without id, createdAt and amountHuf
LegacyThree ==
  JsObject([campType |-> Str("both"), mealPlan |-> Str("full"), fullName |-> Str("C"),
            status |-> Str("DELETED"), termsConsent |-> JsBoolean(TRUE)])

\* no file, and files that parse to a non-empty array: the second holds the
\* id L2 twice, the third one record without an id
LegacyFiles ==
  {NoLegacyFile,
   LegacyFileOf(<<LegacyOne, LegacyTwo, LegacyThree>>),
   LegacyFileOf(<<LegacyTwo, LegacyOne, LegacyTwo>>),
   LegacyFileOf(<<LegacyThree>>)}

RegistrationIds == {NewRegistrationId(n) : n \in 1..MaxRegs} \cup {<<"nobody">>}

\* the imported records with an id and the first registration after the import
LegacyIds == {<<"L1">>, <<"L2">>, NewRegistrationId(2)}

AdminBodiesFor(ids) == {JsObject([registrationId |-> JsString(id)]) : id \in ids}

AdminBodies ==
  AdminBodiesFor(RegistrationIds)
  \cup {JsObject([registrationId |-> JsString(<<" ">> \o NewRegistrationId(1) \o <<"\n">>)]),
        JsObject([registrationId |-> Str(" ")]),
        JsObject(<<>>)}

\* cookies: none, the token a login at time 0 issues, and that token signed
\* with another key
ForgedToken ==
  LET token == buildAdminSessionToken(0)
  IN <<token[1], Hmac("guessed", token[1])>>

ValidCookie == CookieOf(buildAdminSessionToken(0))

Cookies == {NoCookie, ValidCookie, CookieOf(ForgedToken)}

\* the instants the session claims turn on: the first second, and the
\* seconds around twelve hours after it
TtlMs == ADMIN_SESSION_TTL_SECONDS * MsPerSecond

Instants == {0, MsPerSecond, TtlMs, TtlMs + MsPerSecond - 1, TtlMs + MsPerSecond}

\* a token over `payload` signed with `key`
SignedToken(payload, key) ==
  <<Base64UrlJson(payload), Hmac(key, Base64UrlJson(payload))>>

\* tokens a client may send: the ones a login issues in the first and in the
\* second second, and tokens that differ from an issued one in one respect
SessionTokens ==
  {buildAdminSessionToken(0),
   buildAdminSessionToken(MsPerSecond),
   ForgedToken,
   <<>>,
   <<buildAdminSessionToken(0)[1]>>,
   buildAdminSessionToken(0) \o <<buildAdminSessionToken(0)[2]>>,
   <<buildAdminSessionToken(0)[1], EmptySegment>>,
   <<EmptySegment, signSessionPayload(EmptySegment)>>,
   SignedToken([username |-> JsString(<<"root">>), exp |-> JsNumber(2 * ADMIN_SESSION_TTL_SECONDS)],
               ADMIN_SESSION_SECRET),
   SignedToken([username |-> JsString(ADMIN_USERNAME),
                exp |-> JsString(<<"86400">>)],
               ADMIN_SESSION_SECRET),
   SignedToken([username |-> JsString(ADMIN_USERNAME), exp |-> JsUndefined],
               ADMIN_SESSION_SECRET),
   <<[kind |-> "text"], signSessionPayload([kind |-> "text"])>>}

LoginBodies ==
  {[username |-> JsString(ADMIN_USERNAME),
    password |-> JsString(ADMIN_PASSWORD)],
   [username |-> JsString(<<" ">> \o ADMIN_USERNAME \o <<" ">>),
    password |-> JsString(ADMIN_PASSWORD)],
   [username |-> JsString(ADMIN_USERNAME),
    password |-> JsString(ADMIN_PASSWORD \o <<" ">>)],
   [username |-> JsString(ADMIN_USERNAME),
    password |-> JsString(<<"guess">>)],
   [username |-> JsString(<<"root">>),
    password |-> JsString(ADMIN_PASSWORD)],
   [username |-> JsString(ADMIN_USERNAME),
    password |-> JsUndefined],
   [username |-> JsUndefined,
    password |-> JsUndefined],
   Unparseable}

-----------------------------------------------------------------------------
(* The state machine *)

\* the Set-Cookie header of a response: none, or admin_session=token with
\* Max-Age=maxAge
NoSetCookie == [set |-> FALSE, token |-> <<>>, maxAge |-> 0]

SetCookie(token, maxAge) == [set |-> TRUE, token |-> token, maxAge |-> maxAge]

\* what a response body holds: nothing, the authenticated flag, or what the
\* route computes from readRegistrations (the list, the stats, the CSV text)
NoData ==
  [kind |-> "none", authenticated |-> FALSE, ids |-> {},
   registrations |-> <<>>, stats |-> getStats(<<>>), csv |-> <<>>]

SessionData(authenticated) ==
  [NoData EXCEPT !.kind = "session", !.authenticated = authenticated]

RegistrationData(op, table) ==
  LET registrations == readRegistrations(table)
  IN [kind |-> op, authenticated |-> TRUE,
      ids |-> {table[i].id : i \in 1..Len(table)},
      registrations |-> IF op = "registrations" THEN registrations ELSE <<>>,
      stats |-> IF op = "stats" THEN getStats(registrations) ELSE getStats(<<>>),
      csv |-> IF op = "export.csv" THEN buildCsvExport(registrations) ELSE <<>>]

\* history: the token the last successful login over a connection issued,
\* the time of that login, and whether the client has logged out since
NoIssue == [has |-> FALSE, token |-> <<>>, at |-> 0, out |-> FALSE]

Issue(token, at) == [has |-> TRUE, token |-> token, at |-> at, out |-> FALSE]

IdleReq ==
  [st |-> "idle", op |-> "none", body |-> JsObject(<<>>), rid |-> <<>>,
   reg |-> [id |-> <<>>], attempt |-> 0, delay |-> 0, error |-> NoError,
   code |-> 0, errors |-> <<>>, prior |-> <<>>,
   cookie |-> NoCookie, at |-> 0, setCookie |-> NoSetCookie, data |-> NoData,
   mail |-> "none", issued |-> NoIssue, accepted |-> [id |-> <<>>]]

\* a request of the client of connection s, which remembers its last login
\* and the last registration it got accepted
NewReq(s, op, cookie) ==
  [IdleReq EXCEPT !.op = op, !.cookie = cookie, !.at = now,
                  !.issued = req[s].issued, !.accepted = req[s].accepted]

Init ==
  /\ db = <<>>
  /\ legacyFile = NoLegacyFile
  /\ up = FALSE
  /\ now = 0
  /\ uuids = 0
  /\ req = [s \in Slots |-> IdleReq]
  /\ terminated = {}

\* node server.js: initDatabase, then listen.  A start ends every request of
\* the process before it.  A throw from the legacy import ends the start.
Started(r) ==
  /\ db' = r.table
  /\ up' = r.ok
  /\ uuids' = r.uuids
  /\ terminated' = terminated \cup TerminalIds(r.table)
  /\ req' = [s \in DOMAIN req |-> [IdleReq EXCEPT !.issued = req[s].issued,
                                                   !.accepted = req[s].accepted]]
  /\ UNCHANGED <<legacyFile, now>>

Startup == Started(initDatabase(db, legacyFile, now, uuids))

Tick ==
  /\ now < MaxTime
  /\ now' = now + 1
  /\ UNCHANGED <<db, legacyFile, up, uuids, req, terminated>>

\* the response is sent: the locals of runWithSqliteRetry are gone
Done(r, code, errors) ==
  [r EXCEPT !.st = "done", !.attempt = 0, !.delay = 0, !.code = code,
            !.errors = errors]

\* history: the status the row of `id` has in `table`, <<>> without such a row
statusOfId(table, id) ==
  IF HasId(table, id)
  THEN table[CHOOSE i \in 1..Len(table) : table[i].id = id].status
  ELSE <<>>

\* attempt number `attempt` of runWithSqliteRetry for request r, and what the
\* route does with its outcome; `faults` are the errors the store may throw
\* at this attempt because another connection holds the lock
Attempt(s, r, attempt, faults) ==
  \E fault \in {NoError} \cup faults :
    LET res == runAttempt(db, r, fault)
        a == [r EXCEPT !.attempt = attempt]
    IN /\ db' = res.table
       /\ terminated' = terminated \cup TerminalIds(res.table)
       /\ req' = [req EXCEPT ![s] =
                    IF res.error # NoError /\ shouldRetry(res.error, attempt)
                    THEN [a EXCEPT !.st = "sleeping", !.delay = retryDelay(attempt),
                                   !.error = res.error]
                    ELSE Done([a EXCEPT !.error = res.error,
                                        !.prior = statusOfId(db, r.rid),
                                        !.mail = IF r.op = "register" /\ res.error = NoError
                                                 THEN "pending" ELSE "none",
                                        !.accepted = IF r.op = "register" /\ res.error = NoError
                                                     THEN r.reg ELSE r.accepted],
                              statusAfter(r.op, res),
                              IF res.error # NoError THEN res.error.message ELSE <<>>)]

Answer(s, r, code, errors) ==
  /\ req' = [req EXCEPT ![s] = Done(r, code, errors)]
  /\ UNCHANGED <<db, terminated>>

\* Faulty variant: the route awaits the notification inside its try block.
emailSettledAwaited(r, outcome) ==
  [r EXCEPT !.mail = outcome,
            !.code = IF outcome = "failed" THEN 400 ELSE r.code,
            !.errors = IF outcome = "failed" THEN <<"Unknown email error">> ELSE r.errors]

\* the promise of sendRegistrationEmails settles after the response was
\* sent: .catch logs a rejection, a fulfilment is dropped
emailSettled(r, outcome) == [r EXCEPT !.mail = outcome]

\* The register route calls sendRegistrationEmails (with Brevo configured)
\* after the insert and does not await it; the mails are sent or fail at some
\* later time, or never while the process lives.
EmailSettles(s, outcome) ==
  /\ up
  /\ req[s].mail = "pending"
  /\ req' = [req EXCEPT ![s] = emailSettled(req[s], outcome)]
  /\ UNCHANGED <<db, legacyFile, up, now, uuids, terminated>>

\* the request listener is an async function called without a handler for
\* its rejection: a throw outside the try blocks of a route sends no
\* response and, as an unhandled rejection, ends the process and with it
\* the requests that wait in a retry sleep
Crash(s, r) ==
  /\ up' = FALSE
  /\ req' = [t \in DOMAIN req |->
               IF t = s THEN [r EXCEPT !.st = "crashed"]
               ELSE IF req[t].st = "sleeping"
               THEN [req[t] EXCEPT !.st = "crashed"]
               ELSE req[t]]
  /\ UNCHANGED <<db, terminated>>

\* POST /api/admin/registrations/mark-deleted and .../anonymize, from the
\* arrival of the request to the end of the first attempt
AdminRequest(s, op, cookie, body, faults) ==
  LET r == NewReq(s, op, cookie)
  IN /\ up
     /\ req[s].st \in {"idle", "done"}
     /\ IF parseCookiesThrows(cookie)
        THEN Crash(s, r)
        ELSE /\ up' = up
             /\ IF ~isAdminAuthenticated(cookie, now)
                THEN Answer(s, r, 401, <<"Admin login required.">>)
                ELSE IF body = Unparseable
                THEN Answer(s, r, 400, <<"Invalid JSON body">>)
                ELSE IF registrationIdOf(body) = <<>>
                THEN Answer(s, r, 400, <<"registrationId is required.">>)
                ELSE Attempt(s, [r EXCEPT !.rid = registrationIdOf(body)], 1, faults)
     /\ UNCHANGED <<legacyFile, now, uuids>>

\* GET /api/admin/session
SessionRequest(s, cookie) ==
  LET r == NewReq(s, "session", cookie)
  IN /\ up
     /\ req[s].st \in {"idle", "done"}
     /\ IF parseCookiesThrows(cookie)
        THEN Crash(s, r)
        ELSE /\ up' = up
             /\ Answer(s, [r EXCEPT !.data =
                               SessionData(isAdminAuthenticated(cookie, now))],
                       200, <<>>)
     /\ UNCHANGED <<legacyFile, now, uuids>>

\* String(body.username || '').trim() and String(body.password || '')
usernameOf(body) == Trim(JsToString(JsOr(body.username, JsString(<<>>))))

passwordOf(body) == JsToString(JsOr(body.password, JsString(<<>>)))

\* Buffer lengths equal and timingSafeEqual
safeEqualStrings(left, right) == Len(left) = Len(right) /\ left = right

\* POST /api/admin/login
LoginRequest(s, body) ==
  LET r == [NewReq(s, "login", NoCookie) EXCEPT !.body = body]
  IN /\ up
     /\ req[s].st \in {"idle", "done"}
     /\ IF body = Unparseable
        THEN Answer(s, r, 400, <<"Invalid JSON body">>)
        ELSE IF \/ ~safeEqualStrings(usernameOf(body), ADMIN_USERNAME)
                \/ ~safeEqualStrings(passwordOf(body), ADMIN_PASSWORD)
        THEN Answer(s, r, 401, <<"Invalid username or password.">>)
        ELSE Answer(s, [r EXCEPT !.setCookie =
                          SetCookie(buildAdminSessionToken(now),
                                    ADMIN_SESSION_TTL_SECONDS),
                                 !.issued =
                          Issue(buildAdminSessionToken(now), now)],
                    200, <<>>)
     /\ UNCHANGED <<legacyFile, up, now, uuids>>

\* POST /api/admin/logout: clears the cookie of whoever asks
LogoutRequest(s) ==
  /\ up
  /\ req[s].st \in {"idle", "done"}
  /\ Answer(s, [NewReq(s, "logout", NoCookie) EXCEPT
                  !.setCookie = SetCookie(<<>>, 0),
                  !.issued.out = req[s].issued.has],
            200, <<>>)
  /\ UNCHANGED <<legacyFile, up, now, uuids>>

\* GET /api/stats, GET /api/registrations and GET /api/admin/export.csv
GetRequest(s, op, cookie) ==
  LET r == NewReq(s, op, cookie)
  IN /\ up
     /\ req[s].st \in {"idle", "done"}
     /\ IF parseCookiesThrows(cookie)
        THEN Crash(s, r)
        ELSE /\ up' = up
             /\ IF ~isAdminAuthenticated(cookie, now)
                THEN Answer(s, r, 401, <<"Admin login required.">>)
                ELSE Answer(s, [r EXCEPT !.data = RegistrationData(op, db)], 200, <<>>)
     /\ UNCHANGED <<legacyFile, now, uuids>>

\* POST /api/register, from the arrival of the request to the end of the
\* first attempt; at most maxRegs requests get as far as drawing an id
RegisterRequest(s, body, faults, maxRegs) ==
  LET cleanBody == sanitizePayload(body)
      errors == validateRegistration(cleanBody)
      pricing == calculatePricing([campType |-> JsString(cleanBody.campType),
                                   mealPlan |-> JsString(cleanBody.mealPlan),
                                   accommodation |-> JsString(cleanBody.accommodation)])
      reg == newRegistration(cleanBody, pricing, NewRegistrationId(uuids + 1), now)
      r == [NewReq(s, "register", NoCookie) EXCEPT !.body = body]
  IN /\ up
     /\ req[s].st \in {"idle", "done"}
     /\ IF body = Unparseable
        THEN /\ Answer(s, r, 400, <<"Invalid JSON body">>)
             /\ UNCHANGED uuids
        ELSE IF errors # <<>>
        THEN /\ Answer(s, r, 400, errors)
             /\ UNCHANGED uuids
        ELSE /\ uuids < maxRegs
             /\ uuids' = uuids + 1
             /\ Attempt(s, [r EXCEPT !.reg = reg], 1, faults)
     /\ UNCHANGED <<legacyFile, up, now>>

\* the sleep of runWithSqliteRetry is over: the next attempt
\* or, once the loop has counted past the last attempt, the throw below it
Wake(s, faults) ==
  /\ req[s].st = "sleeping"
  /\ IF req[s].attempt + 1 > SQLITE_RETRY_MAX_ATTEMPTS
     THEN Answer(s, [req[s] EXCEPT !.error = RetryExhaustedError,
                                   !.prior = statusOfId(db, req[s].rid)],
                 statusAfter(req[s].op,
                             [table |-> db, error |-> RetryExhaustedError,
                              changes |-> 0]),
                 RetryExhaustedError.message)
     ELSE Attempt(s, req[s], req[s].attempt + 1, faults)
  /\ UNCHANGED <<legacyFile, up, now, uuids>>

AdminOps == {"mark-deleted", "anonymize"}

GetOps == {"stats", "registrations", "export.csv"}

\* the clock jumps to a later one of these instants (milliseconds)
Advance(t) ==
  /\ t > now
  /\ now' = t
  /\ UNCHANGED <<db, legacyFile, up, uuids, req, terminated>>

\* The routes under lock contention: a fresh data directory without a legacy
\* file, registrations and admin requests whose attempts the store may refuse.
Next ==
  \/ Startup
  \/ \E s \in Slots, body \in RegisterBodies \cup {Unparseable} :
       RegisterRequest(s, body, BusyErrors, MaxRegs)
  \/ \E s \in Slots, op \in AdminOps, cookie \in Cookies \ {ValidCookie} :
       AdminRequest(s, op, cookie, JsObject(<<>>), BusyErrors)
  \/ \E s \in Slots, op \in AdminOps, body \in AdminBodies \cup {Unparseable} :
       AdminRequest(s, op, ValidCookie, body, BusyErrors)
  \/ \E s \in Slots : Wake(s, BusyErrors)

Spec == Init /\ [][Next]_vars

\* A data directory that holds a legacy file, over process restarts and
\* time, without contention: the import, the startup migration, one kind of
\* registration and the admin operations on imported and registered rows.
InitLegacy ==
  /\ db = <<>>
  /\ legacyFile \in LegacyFiles
  /\ up = FALSE
  /\ now = 0
  /\ uuids = 0
  /\ req = [s \in Slots |-> IdleReq]
  /\ terminated = {}

NextLegacy ==
  \/ Startup
  \/ Tick
  \/ \E s \in Slots : RegisterRequest(s, JsObject(JodoFields), {}, MaxRegs)
  \/ \E s \in Slots, op \in AdminOps,
        body \in AdminBodiesFor(LegacyIds) :
       AdminRequest(s, op, ValidCookie, body, {})

SpecLegacy == InitLegacy /\ [][NextLegacy]_vars

\* The admin session over twelve hours: a store filled by the legacy import,
\* logins, logouts and requests to every route that reads a session cookie,
\* without contention.
InitAuth ==
  /\ db = <<>>
  /\ legacyFile = LegacyFileOf(<<LegacyOne, LegacyTwo, LegacyThree>>)
  /\ up = FALSE
  /\ now = 0
  /\ uuids = 0
  /\ req = [s \in Slots |-> IdleReq]
  /\ terminated = {}

\* the Cookie headers a client sends to the routes behind the login: none,
\* an undecodable one, a forged token and the token it was issued; to the
\* session route it sends every prepared token as well
GateCookies(issued) ==
  {NoCookie, MalformedCookie, CookieOf(ForgedToken), CookieOf(issued.token)}

NextAuth ==
  \/ Startup
  \/ \E t \in Instants : Advance(t)
  \/ \E s \in Slots, body \in LoginBodies : LoginRequest(s, body)
  \/ \E s \in Slots : LogoutRequest(s)
  \/ \E s \in Slots :
       \E cookie \in GateCookies(req[s].issued)
                      \cup {CookieOf(token) : token \in SessionTokens} :
         SessionRequest(s, cookie)
  \/ \E s \in Slots, op \in GetOps : \E cookie \in GateCookies(req[s].issued) :
       GetRequest(s, op, cookie)
  \/ \E s \in Slots, op \in AdminOps : \E cookie \in GateCookies(req[s].issued) :
       AdminRequest(s, op, cookie,
                    JsObject([registrationId |-> JsString(<<"L1">>)]), {})

SpecAuth == InitAuth /\ [][NextAuth]_vars

\* the process is started once and keeps running
StartOnce == ~up /\ db = <<>> /\ Startup

\* The first registration of a running process, over every combination of
\* camp type, exam wishes and grades and over bodies that break the rules on
\* single fields, without contention.
GradeBodies ==
  {JsObject([campType |-> c, wantsExamIaido |-> wi, wantsExamJodo |-> wj,
             currentGradeIaido |-> gi, currentGradeJodo |-> gj,
             targetGradeIaido |-> ti, targetGradeJodo |-> tj,
             currentGrade |-> g] @@ BaseFields) :
     c \in {Str("iaido"), Str("jodo"), Str("both")},
     wi \in {JsBoolean(TRUE), JsBoolean(FALSE)},
     wj \in {JsBoolean(TRUE), JsUndefined},
     gi \in {Str("4dan"), Str(" "), JsUndefined},
     gj \in {Str("1kyu"), JsUndefined},
     ti \in {Str("5dan"), JsUndefined},
     tj \in {Str("1dan"), JsString(<<>>)},
     g \in {Str("3dan"), JsUndefined}}

\* bodies for the rules on single fields: a valid body with one key left
\* out, with one value that does not pass, with a note of 4001 characters,
\* and the invalid bodies of the other runs
RuleBodies ==
  {JsObject([k \in DOMAIN BothFields \ {d} |-> BothFields[k]]) : d \in DOMAIN BothFields}
  \cup {JsObject(f @@ BothFields) :
          f \in {[email |-> JsString(<<"a", "@", "b">>)],
                 [phone |-> JsString(<<"1", "2", "3", "4", "5", "x", "7">>)],
                 [billingZip |-> JsString(<<"1", "2", "3", "a">>)],
                 [billingCountry |-> Str(" ")],
                 [mealPlan |-> Str("brunch"), accommodation |-> Str("hotel")],
                 [foodNotes |-> JsString([i \in 1..NOTE_MAX_LENGTH |-> "x"])],
                 [foodNotes |-> JsString([i \in 1..(NOTE_MAX_LENGTH + 1) |-> "x"])]}}
  \cup InvalidBodies

NextGrades ==
  \/ StartOnce
  \/ \E s \in Slots, body \in GradeBodies \cup RuleBodies :
       db = <<>> /\ RegisterRequest(s, body, {}, MaxRegs)

SpecGrades == Init /\ [][NextGrades]_vars

\* The pricing engine on its own: a selection is drawn at the start and
\* calculatePricing is applied to it.
\* the inputs of an option: its codes, a code of another option, a code
\* with spaces around it, the empty string and a missing key
OptionInputs(key) ==
  {Str(code) : code \in DOMAIN PRICE_OPTIONS[key]}
  \cup {Str("none"), Str("iaido"), Str("dojo")}
  \cup {JsString(<<" ", "jodo", " ">>), JsString(<<"lunch", " ">>),
        JsString(<<" ", "guesthouse">>)}
  \cup {JsString(<<>>), JsUndefined}

InitPricing ==
  /\ db = <<>>
  /\ legacyFile = NoLegacyFile
  /\ up = FALSE
  /\ now = 0
  /\ uuids = 0
  /\ \E c \in OptionInputs("campType"), m \in OptionInputs("mealPlan"),
        a \in OptionInputs("accommodation") :
       req = [s \in Slots |->
                [IdleReq EXCEPT !.body = JsObject([campType |-> c, mealPlan |-> m,
                                                   accommodation |-> a])]]
  /\ terminated = {}

Price(s) ==
  /\ req[s].st = "idle"
  /\ req' = [req EXCEPT ![s] =
               [@ EXCEPT !.st = "done", !.op = "pricing",
                         !.reg = [id |-> <<>>,
                                  priceBreakdown |-> calculatePricing(req[s].body)]]]
  /\ UNCHANGED <<db, legacyFile, up, now, uuids, terminated>>

NextPricing == \E s \in Slots : Price(s)

SpecPricing == InitPricing /\ [][NextPricing]_vars

\* The retry loop in one running process: a registration and admin requests
\* whose every attempt the store may refuse, for contention or for another
\* reason.
RetryFaults == BusyErrors \cup {IoError}


NextRetry ==
  \/ StartOnce
  \/ \E s \in Slots : RegisterRequest(s, JsObject(BothFields), RetryFaults, MaxRegs)
  \/ \E s \in Slots, op \in AdminOps,
        body \in AdminBodiesFor({NewRegistrationId(1), <<"nobody">>}) :
       AdminRequest(s, op, ValidCookie, body, RetryFaults)
  \/ \E s \in Slots : Wake(s, RetryFaults)

\* a timer that is due fires: the sleep of a retry ends
SpecRetry == Init /\ [][NextRetry]_vars /\ \A s \in Slots : WF_vars(Wake(s, RetryFaults))

\* Two admin connections that each send one mark-deleted request, for
\* different rows of an imported store, while the store refuses attempts for
\* lock contention, but never the fifth attempt of a request.
Conns == {1, 2}

InitConc ==
  /\ db = <<>>
  /\ legacyFile = LegacyFileOf(<<LegacyOne, LegacyTwo, LegacyThree>>)
  /\ up = FALSE
  /\ now = 0
  /\ uuids = 0
  /\ req = [s \in Conns |-> IdleReq]
  /\ terminated = {}

\* contention lasts for fewer than SQLITE_RETRY_MAX_ATTEMPTS attempts in a row
FaultsAt(attempt) ==
  IF attempt < SQLITE_RETRY_MAX_ATTEMPTS THEN BusyErrors ELSE {}

\* connection s asks for a row no other connection has asked for
MarkDeleted(s, id) ==
  /\ req[s].st = "idle"
  /\ \A t \in Conns \ {s} : req[t].rid # id
  /\ AdminRequest(s, "mark-deleted", ValidCookie,
                  JsObject([registrationId |-> JsString(id)]), FaultsAt(1))

NextConc ==
  \/ StartOnce
  \/ \E s \in Conns, id \in {<<"L1">>, <<"L2">>, NewRegistrationId(1)} :
       MarkDeleted(s, id)
  \/ \E s \in Conns : Wake(s, FaultsAt(req[s].attempt + 1))

\* a timer that is due fires: the sleep of a retry ends
SpecConc ==
  /\ InitConc /\ [][NextConc]_vars
  /\ \A s \in Conns : WF_vars(Wake(s, FaultsAt(req[s].attempt + 1)))

\* a legacy record that holds nothing but the combined grade and exam fields
OldItems ==
  {JsObject(fields) :
     fields \in
       {g @@ w @@ t :
          g \in {<<>>, [currentGrade |-> Str("3dan")]},
          w \in {<<>>, [wantsExam |-> JsBoolean(FALSE)], [wantsExam |-> JsBoolean(TRUE)]},
          t \in {<<>>, [targetGrade |-> Str("4dan")]}}}

\* A row the schema before the discipline columns holds (the INSERT of lines
\* 267-306), once ALTER TABLE has added those columns with their defaults.
OldRow(id, grade, wants, target) ==
  [LegacyRow(JsObject([id |-> JsString(id)]), 0, 0) EXCEPT
     !.current_grade = grade, !.wants_exam = wants, !.target_grade = target]

\* stores of the earlier schema: one row, or two rows of which the first, in
\* any status, got iaido values before the second was written
OldStores ==
  LET rows(id) == {OldRow(id, grade, wants, target) :
                     grade \in {<<>>, <<"3dan">>}, wants \in {0, 1},
                     target \in {<<>>, <<"4dan">>}}
  IN {<<row>> : row \in rows(<<"O1">>)}
     \cup {<<[OldRow(<<"O1">>, <<"2dan">>, 1, <<"3dan">>) EXCEPT
               !.status = status,
               !.current_grade_iaido = <<"1dan">>, !.target_grade_iaido = <<"2dan">>],
             row>> : row \in rows(<<"O2">>),
                     status \in Terminal \cup {<<"PAID">>}}

\* A data directory of an earlier version: a database of the earlier schema,
\* or a legacy file with one record and no database.
InitMigrate ==
  /\ \/ db \in OldStores /\ legacyFile = NoLegacyFile
     \/ db = <<>> /\ legacyFile \in {LegacyFileOf(<<item>>) : item \in OldItems}
  /\ up = FALSE
  /\ now = 0
  /\ uuids = 0
  /\ req = [s \in Slots |-> IdleReq]
  /\ terminated = {}

\* a registration for both disciplines whose texts hold the characters CSV
\* gives a meaning to
QuotedFields ==
  [fullName |-> JsString(<<"Smith", ",", " ", "John">>),
   city |-> JsString(<<"\"">>),
   billingAddress |-> JsString(<<"a", "\r", "b">>),
   foodNotes |-> JsString(<<"\"", "no", "\"", "\n", "nuts", "\"", "\"">>)] @@ BothFields

\* starts, registrations for each camp type, their notifications, and the
\* reading routes
NextMigrate ==
  \/ Startup
  \/ \E s \in Slots, fields \in {IaidoFields, JodoFields, QuotedFields} :
       RegisterRequest(s, JsObject(fields), {}, MaxRegs)
  \/ \E s \in Slots, op \in GetOps : GetRequest(s, op, ValidCookie)
  \/ \E s \in Slots, outcome \in {"sent", "failed"} : EmailSettles(s, outcome)

SpecMigrate == InitMigrate /\ [][NextMigrate]_vars

\* An admin connection that reads the list and the stats while a second
\* connection registers, marks rows deleted and anonymizes them; the store
\* comes from a legacy file, older than the start of the process, whose
\* records are not in the order of their time stamps, two of them from the
\* same second.
StampedRecord(id, ms, campType, status) ==
  JsObject([id |-> Str(id), createdAt |-> JsString(toISOString(ms)),
            campType |-> Str(campType), status |-> Str(status)])

InitList ==
  /\ db = <<>>
  /\ legacyFile = LegacyFileOf(<<StampedRecord("L1", MsPerSecond + 500, "both", "PAID"),
                                 StampedRecord("L2", 900, "jodo", "PENDING_PAYMENT"),
                                 StampedRecord("L3", 100, "iaido", "PENDING_PAYMENT")>>)
  /\ up = FALSE
  /\ now = 2 * MsPerSecond
  /\ uuids = 0
  /\ req = [s \in Conns |-> IdleReq]
  /\ terminated = {}

\* one registration is made after the import
NextList ==
  \/ StartOnce
  \/ \E op \in {"registrations", "stats"} : GetRequest(1, op, ValidCookie)
  \/ \E op \in AdminOps, id \in {<<"L1">>, <<"L3">>} :
       AdminRequest(2, op, ValidCookie, JsObject([registrationId |-> JsString(id)]), {})
  \/ Len(db) = Len(legacyFile.items) /\ RegisterRequest(2, JsObject(JodoFields), {}, MaxRegs)

SpecList == InitList /\ [][NextList]_vars

-----------------------------------------------------------------------------
(* Properties of the status lifecycle and of anonymize *)

Rows(table) == 1..Len(table)

\* request s has been answered with `code` by the route `op`
Answered(r, op, code) == r.st = "done" /\ r.op = op /\ r.code = code

C2_NoResurrection ==
  \A i \in Rows(db) :
    db[i].id \in terminated => db[i].status \notin {<<"PAID">>, <<"PENDING_PAYMENT">>}

\* a second mark-deleted has acted on a row that was DELETED already, beside
\* another row that has been anonymized
C2_Witness ==
  \E s \in Slots, i, j \in Rows(db) :
    /\ Answered(req[s], "mark-deleted", 200)
    /\ req[s].rid = db[i].id
    /\ req[s].prior = <<"DELETED">>
    /\ db[i].id \in terminated
    /\ db[j].full_name = <<"ANONYMIZED">> /\ i # j

\* C3: every step keeps each row's (id, created_at) pair in the table, and
\* the ids of the table after the step are pairwise distinct.
C3_IdAndCreatedAtKept ==
  [][/\ \A i \in Rows(db) : \E j \in Rows(db') :
          db'[j].id = db[i].id /\ db'[j].created_at = db[i].created_at
     /\ \A j, k \in Rows(db') : db'[j].id = db'[k].id => j = k]_vars

\* after the import and a registration at a later time, an anonymize and a
\* mark-deleted, the process has been started again
C3_Witness ==
  /\ up /\ \A s \in Slots : req[s].st = "idle"
  /\ \E i, j, k \in Rows(db) :
       /\ db[i].id = <<"L1">> /\ db[i].status = <<"ANONYMIZED">>
       /\ db[j].id = <<"L2">> /\ db[j].status = <<"DELETED">>
       /\ db[k].id = NewRegistrationId(2) /\ db[k].created_at # db[i].created_at

\* the anonymize route run on `table` for `id`, as far as its store and its
\* answer go
AnonymizeCall(table, id) ==
  LET res == operation(table, [IdleReq EXCEPT !.op = "anonymize", !.rid = id])
  IN [table |-> res.table, changes |-> res.changes,
      code |-> statusAfter("anonymize", res)]

\* C4: for every reachable table and every id in it, a second anonymize
\* leaves the table as the first one left it and reports one affected row and
\* HTTP 200.
C4_AnonymizeIdempotent ==
  \A i \in Rows(db) :
    LET first == AnonymizeCall(db, db[i].id)
        second == AnonymizeCall(first.table, db[i].id)
    IN /\ second.table = first.table
       /\ second.changes = 1
       /\ second.code = 200

\* an anonymize answered 200 for a row that was ANONYMIZED before it ran
C4_Witness ==
  \E s \in Slots, i \in Rows(db) :
    /\ Answered(req[s], "anonymize", 200)
    /\ req[s].rid = db[i].id
    /\ req[s].prior = <<"ANONYMIZED">>
    /\ db[i].status = <<"ANONYMIZED">>

\* the columns anonymize rewrites, for the row of `id`
Anonymized(row, id) ==
  /\ row.status = <<"ANONYMIZED">>
  /\ row.full_name = <<"ANONYMIZED">>
  /\ row.email = <<"anonymized-">> \o id \o <<"@example.invalid">>
  /\ row.phone = <<>> /\ row.date_of_birth = <<>> /\ row.city = <<>>
  /\ row.billing_full_name = <<>> /\ row.billing_zip = <<>>
  /\ row.billing_city = <<>> /\ row.billing_address = <<>>
  /\ row.billing_country = <<>>
  /\ row.food_notes = <<>>

\* C5: the step in which anonymize succeeds for an id of the table leaves
\* that row ANONYMIZED with placeholder name, synthetic email and empty phone,
\* date of birth, city, billing fields and food note, keeps its id,
\* created_at, camp type, meal plan, accommodation, amount, currency and price
\* breakdown, and keeps every other row as it was.
C5_AnonymizeEffectAndFrame ==
  [][\A s \in Slots :
       (Answered(req'[s], "anonymize", 200) /\ HasId(db, req'[s].rid))
         => /\ Len(db') = Len(db)
            /\ \A i \in Rows(db) :
                 IF db[i].id = req'[s].rid
                 THEN /\ Anonymized(db'[i], db[i].id)
                      /\ db'[i].id = db[i].id
                      /\ db'[i].created_at = db[i].created_at
                      /\ db'[i].camp_type = db[i].camp_type
                      /\ db'[i].meal_plan = db[i].meal_plan
                      /\ db'[i].accommodation = db[i].accommodation
                      /\ db'[i].amount_huf = db[i].amount_huf
                      /\ db'[i].currency = db[i].currency
                      /\ db'[i].price_breakdown = db[i].price_breakdown
                 ELSE db'[i] = db[i]]_vars

\* anonymize has succeeded on a registration with a food note that was
\* awaiting payment, beside another row that is not anonymized
C5_Witness ==
  \E s \in Slots, i, j \in Rows(db) :
    /\ Answered(req[s], "anonymize", 200)
    /\ req[s].rid = db[i].id
    /\ req[s].prior = <<"PENDING_PAYMENT">>
    /\ db[i].camp_type = <<"both">>
    /\ db[j].status # <<"ANONYMIZED">>

-----------------------------------------------------------------------------
(* Properties of stored amounts, the frame of the admin operations and the
   answers of the routes *)

\* C6: for every row of the table, registered or imported, the stored amount
\* is the sum of the three line-item amounts of the stored price breakdown.
C6_AmountIsSumOfLineItems ==
  \A i \in Rows(db) :
    LET lineItems == JsonParse(db[i].price_breakdown).lineItems
    IN db[i].amount_huf =
         lineItems[1].amountHuf + lineItems[2].amountHuf + lineItems[3].amountHuf

\* the pricing snapshot and the consent record of a row
Snapshot(row) ==
  <<row.camp_type, row.meal_plan, row.accommodation, row.amount_huf, row.currency,
    row.price_breakdown, row.privacy_consent, row.terms_consent,
    row.privacy_policy_version, row.terms_version,
    row.privacy_consent_at, row.terms_consent_at>>

\* C7: no step (mark-deleted, anonymize, a start of the process with its
\* schema migration) changes the option codes, amount, currency, price
\* breakdown, consent flags, policy versions or consent timestamps of a row
\* that is in the table.
C7_SnapshotWriteOnce ==
  [][\A i \in Rows(db), j \in Rows(db') :
       db'[j].id = db[i].id => Snapshot(db'[j]) = Snapshot(db[i])]_vars

\* a registration for jodo only that has been anonymized and whose iaido grade
\* column a later start of the process has backfilled
C7_Witness ==
  \E i \in Rows(db) :
    /\ db[i].id = NewRegistrationId(2)
    /\ db[i].status = <<"ANONYMIZED">>
    /\ db[i].current_grade_iaido # <<>>
    /\ db[i].privacy_consent_at # <<>>

\* C8: an attempt the store refuses with a busy error writes nothing and is
\* followed by a sleep while attempts are left; the request is answered with
\* a busy error only after the last attempt, with 503, and that step writes
\* nothing either.
C8_ExhaustedContention ==
  [][\A s \in Slots :
       LET r == req'[s]
       IN /\ (r.st = "sleeping" /\ r # req[s])
               => db' = db /\ r.attempt < SQLITE_RETRY_MAX_ATTEMPTS
          /\ (r.st = "done" /\ isSqliteBusyError(r.error))
               => /\ db' = db
                  /\ r.code = 503
                  /\ req[s].st = "sleeping"
                  /\ req[s].attempt = SQLITE_RETRY_MAX_ATTEMPTS - 1]_vars

\* a registration answered 503 while the table holds an earlier row
C8_Witness ==
  \E s \in Slots :
    /\ Answered(req[s], "register", 503)
    /\ isSqliteBusyError(req[s].error)
    /\ Len(db) = 1

\* C9: for an authenticated admin whose statement runs, mark-deleted and
\* anonymize answer 404 and leave the table as it was when no row has the
\* id, and answer 200 and change only the row of the id (to status DELETED,
\* respectively to the anonymized row) when a row has it.
C9_AdminOperationAnswer ==
  [][\A s \in Slots :
       LET r == req'[s]
       IN (r.st = "done" /\ r.op \in AdminOps /\ r.rid # <<>> /\ r.error = NoError)
            => IF HasId(db, r.rid)
               THEN /\ r.code = 200
                    /\ Len(db') = Len(db)
                    /\ \A i \in Rows(db) :
                         IF db[i].id # r.rid THEN db'[i] = db[i]
                         ELSE IF r.op = "mark-deleted"
                         THEN db'[i] = [db[i] EXCEPT !.status = <<"DELETED">>]
                         ELSE Anonymized(db'[i], r.rid)
               ELSE r.code = 404 /\ db' = db]_vars

\* mark-deleted has succeeded on a registration awaiting payment, beside a row
\* that still awaits payment
C9_Witness ==
  \E s \in Slots, i, j \in Rows(db) :
    /\ Answered(req[s], "mark-deleted", 200)
    /\ req[s].rid = db[i].id
    /\ req[s].prior = <<"PENDING_PAYMENT">>
    /\ db[i].status = <<"DELETED">>
    /\ db[j].status = <<"PENDING_PAYMENT">>

\* the price of the options a row stores, from the price table
PriceOf(row) ==
  PRICE_OPTIONS.campType[row.camp_type[1]].amountHuf
  + PRICE_OPTIONS.mealPlan[row.meal_plan[1]].amountHuf
  + PRICE_OPTIONS.accommodation[row.accommodation[1]].amountHuf

\* C10: a registration request that is not refused for contention is answered
\* 400 with a non-empty error list and no new row when its body fails
\* validation, and 201 with exactly one new row when it passes: the row has
\* the id just drawn, which no earlier row has, status PENDING_PAYMENT, the
\* amount of its sanitized options and the policy versions in force, whatever
\* id, status, amount or versions the body names.
C10_RegisterAnswer ==
  [][\A s \in Slots :
       LET r == req'[s]
           row == db'[Len(db')]
       IN (r.st = "done" /\ r.op = "register" /\ ~isSqliteBusyError(r.error))
            => /\ r.body \in InvalidBodies
                    => r.code = 400 /\ r.errors # <<>> /\ db' = db
               /\ r.body \in ValidBodies
                    => /\ r.code = 201
                       /\ Len(db') = Len(db) + 1
                       /\ SubSeq(db', 1, Len(db)) = db
                       /\ row.id = NewRegistrationId(uuids')
                       /\ ~HasId(db, row.id)
                       /\ row.status = <<"PENDING_PAYMENT">>
                       /\ row.amount_huf = PriceOf(row)
                       /\ row.camp_type = IF r.body = JsObject(BothFields)
                                          THEN <<"both">> ELSE <<"iaido">>
                       /\ row.privacy_policy_version = PRIVACY_POLICY_VERSION
                       /\ row.terms_version = TERMS_VERSION]_vars

\* the body that names id, status, amount and versions has been registered
\* after another registration
C10_Witness ==
  \E s \in Slots :
    /\ Answered(req[s], "register", 201)
    /\ req[s].body = JsObject(ForgedFields)
    /\ Len(db) = 2
    /\ db[2].id = req[s].reg.id

\* the routes behind the admin login
GatedOps == GetOps \cup AdminOps

\* C11: every request to a route behind the admin login whose Cookie header
\* carries no valid session token at the time it arrives is answered 401,
\* discloses no registration and leaves the table as it was.  Violated: a
\* header with a malformed percent-encoding is answered with nothing at all.
C11_GatedRoutesAnswer401 ==
  [][\A s \in Slots :
       LET r == req'[s]
       IN (/\ r.op \in GatedOps
           /\ r.st \in {"done", "crashed"}
           /\ ~verifyAdminSessionToken(r.cookie, r.at))
            => /\ r.st = "done"
               /\ r.code = 401
               /\ r.data = NoData
               /\ db' = db]_vars

\* C12: every request to GET /api/admin/session, whatever its Cookie header
\* holds, completes with status 200 and the authenticated flag.  Violated:
\* parseCookies throws on a malformed percent-encoding, outside any try
\* block, and the request gets no response.
C12_SessionNeverErrors ==
  \A s \in Slots :
    (req[s].op = "session" /\ req[s].st # "idle")
      => /\ req[s].st = "done"
         /\ req[s].code = 200
         /\ req[s].data = SessionData(req[s].data.authenticated)

\* the session route has answered that the cookie of its request authenticates
Accepted(r) == r.st = "done" /\ r.op = "session" /\ r.data.authenticated

\* two non-empty segments, the second the HMAC of the first under the
\* server's secret, over a payload that names the admin and a numeric expiry
WellSigned(token) ==
  /\ Len(token) = 2
  /\ token[1] # EmptySegment /\ token[2] # EmptySegment
  /\ token[2] = Hmac(ADMIN_SESSION_SECRET, token[1])
  /\ token[1].kind = "b64json"
  /\ token[1].object.username = JsString(ADMIN_USERNAME)
  /\ token[1].object.exp.t = "number"

\* C13 as stated: a token is accepted only if it is well signed for the
\* admin and its expiry is not before the time of the request.  Violated: a
\* token is still accepted in the second that begins at its expiry.
C13_AcceptedOnlyIfNotPast ==
  \A s \in Slots :
    Accepted(req[s])
      => /\ WellSigned(req[s].cookie.token)
         /\ req[s].cookie.token[1].object.exp.n * MsPerSecond >= req[s].at

\* C13 amended: a token is accepted only if it has exactly two non-empty
\* segments, the second is the HMAC of the first under the server's secret,
\* the payload names the configured admin and its numeric expiry is not
\* before the time of the request in whole seconds.
C13_AcceptedOnlyIfWellSignedAndUnexpired ==
  \A s \in Slots :
    Accepted(req[s])
      => /\ WellSigned(req[s].cookie.token)
         /\ req[s].cookie.token[1].object.exp.n >= req[s].at \div MsPerSecond

\* the token of a login in the first second has been accepted in the last
\* millisecond of the second of its expiry
C13_Witness ==
  \E s \in Slots :
    /\ Accepted(req[s])
    /\ req[s].cookie = CookieOf(buildAdminSessionToken(0))
    /\ req[s].at = TtlMs + MsPerSecond - 1

\* the request was let in: the session route says so, a gated route does
\* not answer 401
Authenticates(r) ==
  IF r.op = "session" THEN r.data.authenticated ELSE r.code # 401

\* a request that has been answered and carried the token of the last login
WithIssuedToken(r) ==
  /\ r.st = "done"
  /\ r.op \in GatedOps \cup {"session"}
  /\ r.issued.has
  /\ r.cookie = CookieOf(r.issued.token)

\* the expiry the token of a Set-Cookie header carries, in seconds
ExpOf(setCookie) == setCookie.token[1].object.exp.n

C15_BothEventuallySucceed ==
  /\ \A s \in Conns : (req[s].st = "sleeping") ~> (req[s].st = "done")
  /\ [](\A s \in Conns :
          req[s].st = "done"
            => /\ req[s].code = 200
               /\ statusOfId(db, req[s].rid) = <<"DELETED">>)

\* one request has succeeded while the other waits for its fifth attempt
C15_Witness ==
  /\ Answered(req[1], "mark-deleted", 200)
  /\ req[2].st = "sleeping"
  /\ req[2].attempt = SQLITE_RETRY_MAX_ATTEMPTS - 1
  /\ req[2].rid # req[1].rid
  /\ statusOfId(db, req[1].rid) = <<"DELETED">>
  /\ statusOfId(db, req[2].rid) # <<"DELETED">>

\* the number of the attempt that a step of connection s makes
AttemptNo(s) == IF req[s].st = "sleeping" THEN req[s].attempt + 1 ELSE 1

\* C16: the retry loop makes at most five attempts and ends.  It waits only
\* after an attempt that failed with a contention error and was not the
\* fifth, for 120, 240, 360 and 480 ms after attempts 1 to 4; the first
\* attempt that succeeds ends it with that attempt's result; an error that
\* is not contention ends it at once, as does contention at the fifth
\* attempt; and every wait is followed by an answer.
C16_RetryLoop ==
  /\ [][\A s \in Slots :
          /\ (req'[s].st = "sleeping" /\ req'[s] # req[s])
               => /\ req'[s].attempt = AttemptNo(s)
                  /\ req'[s].attempt < 5
                  /\ req'[s].error \in BusyErrors
                  /\ req'[s].delay = <<120, 240, 360, 480>>[req'[s].attempt]
                  /\ db' = db
          /\ (req'[s].st = "done" /\ req[s].st = "sleeping")
               => /\ AttemptNo(s) <= 5
                  /\ req'[s].delay = 0
                  /\ req'[s].error \in BusyErrors => AttemptNo(s) = 5
                  /\ req'[s].error = NoError
                       => req'[s].code \in {200, 201, 404}
                  /\ req'[s].error # NoError => db' = db]_vars
  /\ \A s \in Slots : (req[s].st = "sleeping") ~> (req[s].st = "done")

\* the loop waits 480 ms after its fourth attempt
C16_Witness ==
  \E s \in Slots :
    /\ req[s].st = "sleeping"
    /\ req[s].attempt = 4
    /\ req[s].delay = 480
    /\ req[s].error \in BusyErrors

\* the loop of connection s ends in this step with the failure of its fifth
\* attempt, after four attempts that failed with contention
FifthAttemptFails(s) ==
  /\ req[s].st = "sleeping"
  /\ req[s].attempt = SQLITE_RETRY_MAX_ATTEMPTS - 1
  /\ req'[s].st = "done"
  /\ req'[s].error \notin {NoError, IoError}

\* C17 as stated: when every attempt fails with contention the loop stops
\* after five attempts and raises the "retry exhausted" failure.  Violated:
\* what it raises is the contention error of the fifth attempt.
C17_RaisesRetryExhausted ==
  [][\A s \in Slots :
       FifthAttemptFails(s) => req'[s].error = RetryExhaustedError]_vars

\* C17 amended: when every attempt fails with contention the loop stops
\* after five attempts, without a wait after the fifth, and raises the
\* contention error of the fifth attempt to the route, which answers 503 and
\* has written nothing; the "retry exhausted" failure is never raised.
C17_RaisesLastContentionError ==
  [][\A s \in Slots :
       /\ FifthAttemptFails(s)
            => /\ req'[s].error \in BusyErrors
               /\ req'[s].code = 503
               /\ db' = db
       /\ req'[s].st = "sleeping" => req'[s].attempt < SQLITE_RETRY_MAX_ATTEMPTS
       /\ req'[s].error # RetryExhaustedError]_vars

\* an anonymize request has been answered 503 with the contention error of
\* its last attempt
C17_Witness ==
  \E s \in Slots :
    /\ Answered(req[s], "anonymize", 503)
    /\ req[s].error \in BusyErrors
    /\ req[s].rid = NewRegistrationId(1)
    /\ HasId(db, req[s].rid)

OptionKeys == {"campType", "mealPlan", "accommodation"}

\* the defaults of the three options
DefaultCode == [campType |-> <<"iaido">>, mealPlan |-> <<"none">>, accommodation |-> <<"none">>]

\* the position of an option's line item
ItemOf == [campType |-> 1, mealPlan |-> 2, accommodation |-> 3]

\* a string that is a code of the price table of `key`
IsCode(key, string) == Len(string) = 1 /\ string[1] \in DOMAIN PRICE_OPTIONS[key]

\* the pricing of r resolves every option to `resolved`, has one line item
\* per option with the amount of the resolved code, and totals them
PricedAs(r, resolved) ==
  LET p == r.reg.priceBreakdown
  IN /\ Len(p.lineItems) = 3
     /\ \A key \in OptionKeys :
          /\ p.selection[key] = resolved[key]
          /\ p.lineItems[ItemOf[key]].key = key
          /\ p.lineItems[ItemOf[key]].code = resolved[key]
          /\ p.lineItems[ItemOf[key]].amountHuf
               = PRICE_OPTIONS[key][resolved[key][1]].amountHuf
     /\ p.totalHuf = p.lineItems[1].amountHuf + p.lineItems[2].amountHuf
                        + p.lineItems[3].amountHuf

\* C18 as stated: calculatePricing resolves each option input to itself if
\* it is a code of its category and otherwise to the default, returns three
\* line items and the sum of their amounts as total.  Violated: a code with
\* spaces around it is resolved to the code, not to the default.
C18_ResolvesCodeOrDefault ==
  \A s \in Slots :
    (req[s].st = "done" /\ req[s].op = "pricing")
      => PricedAs(req[s],
                  [key \in OptionKeys |->
                     IF req[s].body[key].t = "string"
                        /\ IsCode(key, req[s].body[key].s)
                     THEN req[s].body[key].s ELSE DefaultCode[key]])

\* C18 amended: calculatePricing resolves each option input, with the white
\* space around it removed, to itself if that is a code of its category and
\* otherwise to the default (iaido, none, none), returns exactly three line
\* items and a total equal to the sum of their amounts.
C18_ResolvesTrimmedCodeOrDefault ==
  \A s \in Slots :
    (req[s].st = "done" /\ req[s].op = "pricing")
      => PricedAs(req[s],
                  [key \in OptionKeys |->
                     IF req[s].body[key].t = "string"
                        /\ IsCode(key, Trim(req[s].body[key].s))
                     THEN Trim(req[s].body[key].s) ELSE DefaultCode[key]])

\* a selection of a padded code, a code of another category and a missing
\* option has been priced as jodo without meals and accommodation
C18_Witness ==
  \E s \in Slots :
    /\ req[s].st = "done" /\ req[s].op = "pricing"
    /\ req[s].body.campType = JsString(<<" ", "jodo", " ">>)
    /\ req[s].body.mealPlan = Str("iaido")
    /\ req[s].body.accommodation = JsUndefined
    /\ req[s].reg.priceBreakdown.selection
         = [campType |-> <<"jodo">>, mealPlan |-> <<"none">>,
            accommodation |-> <<"none">>]
    /\ req[s].reg.priceBreakdown.totalHuf = 149

\* the cross-field rules of one discipline on a stored row: `grade`,
\* `wants` and `target` are its columns, `other` the camp type without it
GradeRules(row, grade, wants, target, other) ==
  /\ (row.camp_type # other \/ row[wants] = 1) => Len(Trim(row[grade])) > 0
  /\ row[wants] = 1 => Len(Trim(row[target])) > 0 /\ row.camp_type # other

\* C19: every row that POST /api/register inserts has a non-empty current
\* iaido grade if its camp type is iaido or both or it asks for the iaido
\* exam, and asks for the iaido exam only with a non-empty iaido target
\* grade and a camp type other than jodo; and the same for jodo, with camp
\* type iaido excluded.
C19_CrossFieldRules ==
  [][\A s \in Slots :
       (Answered(req'[s], "register", 201) /\ Len(db') = Len(db) + 1)
         => LET row == db'[Len(db')]
            IN /\ row.camp_type \in {<<"iaido">>, <<"jodo">>, <<"both">>}
               /\ GradeRules(row, "current_grade_iaido", "wants_exam_iaido",
                             "target_grade_iaido", <<"jodo">>)
               /\ GradeRules(row, "current_grade_jodo", "wants_exam_jodo",
                             "target_grade_jodo", <<"iaido">>)]_vars

\* a registration for both disciplines with both exams is stored, from a
\* body that gave its iaido grade under the legacy key
C19_Witness ==
  \E s \in Slots :
    /\ Answered(req[s], "register", 201)
    /\ req[s].body.currentGradeIaido = JsUndefined
    /\ req[s].body.currentGrade = Str("3dan")
    /\ Len(db) = 1
    /\ db[1].camp_type = <<"both">>
    /\ db[1].wants_exam_iaido = 1 /\ db[1].wants_exam_jodo = 1
    /\ db[1].current_grade_iaido = <<"3dan">>

\* a start of the process has put rows into the table
ImportStep == Len(db') > Len(db) /\ \A s \in Slots : req'[s].st = "idle"

\* C20: a start of the process imports legacy records only if the legacy
\* file exists and the table holds no row; a start with a row in the table
\* inserts nothing; and since no step removes a row, the records are
\* imported at most once over all starts and registrations.
C20_ImportOnlyIntoEmptyStore ==
  [][/\ ImportStep => db = <<>> /\ legacyFile.exists
     /\ Len(db') >= Len(db)
     /\ \A i \in Rows(db) : db'[i].id = db[i].id]_vars

\* the process has been started again after the import of three records
\* and a registration, and the table holds those four rows
C20_Witness ==
  /\ up
  /\ \A s \in Slots : req[s].st = "idle"
  /\ Len(db) = 4
  /\ db[1].id = <<"L1">> /\ db[2].id = <<"L2">>
  /\ db[4].id = NewRegistrationId(2)

\* the ids the records of the legacy file name
LegacyFileIds ==
  {legacyFile.items[i].id.s :
     i \in {j \in 1..Len(legacyFile.items) : Truthy(legacyFile.items[j].id)}}

\* two records of the legacy file name the same id
LegacyFileRepeatsId ==
  \E i, j \in 1..Len(legacyFile.items) :
    /\ i < j
    /\ Truthy(legacyFile.items[i].id)
    /\ legacyFile.items[i].id = legacyFile.items[j].id

\* C21: the legacy import is all or nothing.  When the insert of a record
\* fails (the file names an id twice) the table holds no row and the process
\* is not running; otherwise a running process holds a row for every record
\* of the file, in the order of the file; and in no state does the table
\* hold some but not all of the ids the file names.
C21_ImportAllOrNothing ==
  /\ (\A id \in LegacyFileIds : HasId(db, id))
       \/ (\A id \in LegacyFileIds : ~HasId(db, id))
  /\ LegacyFileRepeatsId => db = <<>> /\ ~up
  /\ (up /\ ~LegacyFileRepeatsId)
       => /\ Len(db) >= Len(legacyFile.items)
          /\ \A i \in 1..Len(legacyFile.items) :
               Truthy(legacyFile.items[i].id)
                 => db[i].id = legacyFile.items[i].id.s

\* the three records of a file without a repeated id are in the table of a
\* running process, the third under a fresh id
C21_Witness ==
  /\ up
  /\ ~LegacyFileRepeatsId
  /\ Len(legacyFile.items) = 3
  /\ Len(db) = 3
  /\ db[1].id = <<"L1">> /\ db[2].id = <<"L2">>
  /\ db[3].id = NewRegistrationId(1)

-----------------------------------------------------------------------------
(* Properties of the legacy import and of the startup migration *)

\* the record of a legacy file with one record has been imported as row 1
ImportedOld == legacyFile.exists /\ Len(db) >= 1

OldItem == legacyFile.items[1]

OldText(v) == JsToString(JsOr(v, JsString(<<>>)))

JodoFieldsEmpty(row) ==
  /\ row.current_grade_jodo = <<>>
  /\ row.wants_exam_jodo = 0
  /\ row.target_grade_jodo = <<>>

\* C22 (as stated): the row imported from a legacy record that holds only
\* the combined current grade, wants-exam and target grade carries these three
\* values in its iaido columns, and its jodo columns are empty and false.
C22_IaidoFieldsEqualCombined ==
  ImportedOld =>
    /\ db[1].current_grade_iaido = OldText(OldItem.currentGrade)
    /\ db[1].wants_exam_iaido = Bit(Truthy(OldItem.wantsExam))
    /\ db[1].target_grade_iaido = OldText(OldItem.targetGrade)
    /\ JodoFieldsEmpty(db[1])

\* C22 (amended): the iaido current grade and wants-exam equal the combined
\* values; the iaido target grade equals the combined target grade when the
\* combined wants-exam is set and is empty otherwise; the jodo columns are
\* empty and false.
C22_IaidoTargetOnlyWithExam ==
  ImportedOld =>
    /\ db[1].current_grade_iaido = OldText(OldItem.currentGrade)
    /\ db[1].wants_exam_iaido = Bit(Truthy(OldItem.wantsExam))
    /\ db[1].target_grade_iaido =
         IF Truthy(OldItem.wantsExam) THEN OldText(OldItem.targetGrade) ELSE <<>>
    /\ JodoFieldsEmpty(db[1])

\* a record with all three combined fields set has been imported
C22_Witness ==
  /\ ImportedOld
  /\ OldItem.wantsExam = JsBoolean(TRUE)
  /\ db[1].current_grade_iaido = <<"3dan">>
  /\ db[1].wants_exam_iaido = 1
  /\ db[1].target_grade_iaido = <<"4dan">>

\* no step changes an iaido column of `row` that was non-empty or set
KeepsSetIaidoFields(before, after) ==
  /\ before.current_grade_iaido # <<>>
       => after.current_grade_iaido = before.current_grade_iaido
  /\ before.wants_exam_iaido = 1 => after.wants_exam_iaido = 1
  /\ before.target_grade_iaido # <<>>
       => after.target_grade_iaido = before.target_grade_iaido

\* C23: for every store content, the startup migration run twice leaves what
\* one run leaves, and no start changes an iaido current grade, wants-exam or
\* target grade that was non-empty or set before it.
C23_MigrationIdempotentNonOverwriting ==
  /\ [](ensureRegistrationColumns(ensureRegistrationColumns(db))
          = ensureRegistrationColumns(db))
  /\ [][\A i \in Rows(db) : Len(db') >= i /\ KeepsSetIaidoFields(db[i], db'[i])]_vars

\* a start has backfilled both rows of a store of the earlier schema: the
\* first kept the iaido values it had, the second got the combined ones
C23_Witness ==
  /\ up
  /\ Len(db) = 2
  /\ db[1].current_grade = <<"2dan">> /\ db[1].current_grade_iaido = <<"1dan">>
  /\ db[1].target_grade = <<"3dan">> /\ db[1].target_grade_iaido = <<"2dan">>
  /\ db[1].wants_exam_iaido = 1
  /\ db[2].wants_exam_iaido = 1
  /\ db[2].current_grade_iaido = <<"3dan">>
  /\ db[2].target_grade_iaido = <<"4dan">>

-----------------------------------------------------------------------------
(* Properties of the reading routes *)

\* CSV unquoting (RFC 4180).  A position is outside quotes when an even number
\* of quotes precedes it; a line feed outside quotes ends a record, a comma
\* outside quotes ends a field; a field in quotes stands for its inside with
\* every doubled quote read as one quote.
Separators(text, sym) ==
  {i \in 1..Len(text) :
     /\ text[i] = sym
     /\ Cardinality({j \in 1..(i - 1) : text[j] = "\""}) % 2 = 0}

\* the pieces of `text` between the positions `seps` and its two ends
Pieces(text, seps) ==
  LET Nth(k) == IF k = 0 THEN 0
                ELSE IF k > Cardinality(seps) THEN Len(text) + 1
                ELSE CHOOSE i \in seps : Cardinality({j \in seps : j < i}) = k - 1
  IN [k \in 1..(Cardinality(seps) + 1) |-> SubSeq(text, Nth(k - 1) + 1, Nth(k) - 1)]

RECURSIVE Undouble(_)
Undouble(s) ==
  IF s = <<>> THEN <<>>
  ELSE IF Head(s) = "\"" /\ Len(s) >= 2 /\ s[2] = "\""
  THEN <<"\"">> \o Undouble(Tail(Tail(s)))
  ELSE <<Head(s)>> \o Undouble(Tail(s))

Unquote(field) ==
  IF Len(field) >= 2 /\ Head(field) = "\"" /\ field[Len(field)] = "\""
  THEN Undouble(SubSeq(field, 2, Len(field) - 1))
  ELSE field

\* the records of a text in which a line feed ends every record
ParseCsv(text) ==
  LET lines == Pieces(text, Separators(text, "\n"))
  IN [r \in 1..(Len(lines) - 1) |->
        LET fields == Pieces(lines[r], Separators(lines[r], ","))
        IN [f \in 1..Len(fields) |-> Unquote(fields[f])]]

\* connection s holds the answer of the reading route `op`
Read(s, op) == Answered(req[s], op, 200) /\ req[s].data.kind = op

\* the store in list order, not mapped
Listed(table) ==
  [p \in 1..Len(table) |-> table[CHOOSE i \in 1..Len(table) : OrderByPlace(table, i) = p]]

\* C24: the CSV export starts with the byte-order mark; unquoted, it is the
\* header line with the fixed column names followed by one record per row of
\* the store, whatever its status, in list order, whose fields are the values
\* of that row as they are, commas, quotes and line breaks included.
C24_CsvRoundTrip ==
  \A s \in DOMAIN req :
    Read(s, "export.csv") =>
      LET records == ParseCsv(Tail(req[s].data.csv))
      IN /\ Head(req[s].data.csv) = "\\uFEFF"
         /\ Len(records) = Len(db) + 1
         /\ records[1] = [i \in 1..Len(CsvHeaders) |-> <<CsvHeaders[i]>>]
         /\ \A i \in Rows(db) :
              /\ records[i + 1] = CsvRow(mapRegistrationRow(Listed(db)[i]))
              /\ records[i + 1][1] = Listed(db)[i].id
              /\ records[i + 1][3] = Listed(db)[i].status
              /\ records[i + 1][4] = Listed(db)[i].full_name
              /\ records[i + 1][27] = StrOr(Listed(db)[i].food_notes, <<>>)

\* an export of an anonymized row, an active row and a registration with a
\* comma in the name, quoted in the text
C24_Witness ==
  \E s \in DOMAIN req :
    /\ Read(s, "export.csv")
    /\ Len(db) = 3
    /\ db[1].status = <<"ANONYMIZED">>
    /\ db[3].full_name = <<"Smith", ",", " ", "John">>
    /\ db[3].food_notes = <<"\"", "no", "\"", "\n", "nuts", "\"", "\"">>
    /\ \E i \in 1..Len(req[s].data.csv) :
         SubSeq(req[s].data.csv, i, i + 7)
           = <<",", "\"", "Smith", ",", " ", "John", "\"", ",">>

-----------------------------------------------------------------------------
(* Properties of the notification *)

\* C25: a notification is under way or settled only for a register request
\* that has stored its row and is answered 201; and when it settles, as sent
\* or as failed, or stays pending, the answer and the store are what they
\* were when it was dispatched.
C25_NotificationNeverReachesRegistrant ==
  /\ [](\A s \in DOMAIN req :
          req[s].mail # "none"
            => /\ Answered(req[s], "register", 201)
               /\ req[s].errors = <<>>
               /\ HasId(db, req[s].reg.id))
  /\ [][\A s \in DOMAIN req :
          (req[s].mail = "pending" /\ req'[s].mail \in {"sent", "failed"})
            => /\ req'[s] = [req[s] EXCEPT !.mail = req'[s].mail]
               /\ db' = db]_vars

\* the notification of a stored registration has failed
C25_Witness ==
  \E s \in DOMAIN req :
    /\ req[s].mail = "failed"
    /\ Answered(req[s], "register", 201)
    /\ HasId(db, req[s].reg.id)

-----------------------------------------------------------------------------
(* Properties of the per-discipline fields *)

\* the registration with `id` in a list
WithId(registrations, id) ==
  registrations[CHOOSE i \in DOMAIN registrations : registrations[i].id = id]

\* C26: in every answer of GET /api/registrations, the registration a client
\* got accepted last has the current grades, wants-exam flags and target
\* grades of both disciplines that the client submitted (sanitized), however
\* many starts have run since; a jodo-only registration submitted with an
\* empty iaido grade is read back with an empty iaido grade.
C26_DisciplineFieldsRoundTrip ==
  \A s \in DOMAIN req :
    (Read(s, "registrations") /\ req[s].accepted.id # <<>>)
      => LET read == WithId(req[s].data.registrations, req[s].accepted.id)
             sent == req[s].accepted
         IN /\ read.currentGradeIaido = sent.currentGradeIaido
            /\ read.currentGradeJodo = sent.currentGradeJodo
            /\ read.wantsExamIaido = sent.wantsExamIaido
            /\ read.targetGradeIaido = sent.targetGradeIaido
            /\ read.wantsExamJodo = sent.wantsExamJodo
            /\ read.targetGradeJodo = sent.targetGradeJodo

-----------------------------------------------------------------------------
(* Properties of validateRegistration *)

Blank(text) == Len(Trim(text)) = 0

\* the messages of the rules that the sanitized registration `data` violates
ViolatedRules(data) ==
  {m \in {IF Blank(data.fullName) THEN "Full name is required." ELSE "",
          IF ~isValidEmail(data.email) THEN "A valid email address is required." ELSE "",
          IF ~isValidPhone(data.phone) THEN "A valid phone number is required." ELSE "",
          IF Blank(data.city) THEN "City is required." ELSE "",
          IF (data.campType \in {<<"iaido">>, <<"both">>} \/ data.wantsExamIaido)
             /\ Blank(data.currentGradeIaido)
          THEN "Current Iaido grade is required for the selected option." ELSE "",
          IF (data.campType \in {<<"jodo">>, <<"both">>} \/ data.wantsExamJodo)
             /\ Blank(data.currentGradeJodo)
          THEN "Current Jodo grade is required for the selected option." ELSE "",
          IF data.wantsExamIaido /\ Blank(data.targetGradeIaido)
          THEN "Iaido target grade is required if Iaido exam is selected." ELSE "",
          IF data.wantsExamJodo /\ Blank(data.targetGradeJodo)
          THEN "Jodo target grade is required if Jodo exam is selected." ELSE "",
          IF data.wantsExamIaido /\ data.campType = <<"jodo">>
          THEN "Iaido exam can only be selected with Iaido or Iaido + Jodo participation."
          ELSE "",
          IF data.wantsExamJodo /\ data.campType = <<"iaido">>
          THEN "Jodo exam can only be selected with Jodo or Iaido + Jodo participation."
          ELSE "",
          IF Blank(data.billingFullName) THEN "Billing full name is required." ELSE "",
          IF ~(Len(data.billingZip) = 4 /\ \A i \in 1..4 : data.billingZip[i] \in Digits)
          THEN "Billing ZIP code must be 4 digits." ELSE "",
          IF Blank(data.billingCity) THEN "Billing city is required." ELSE "",
          IF Blank(data.billingAddress) THEN "Billing address is required." ELSE "",
          IF Blank(data.billingCountry) THEN "Billing country is required." ELSE "",
          IF Len(data.foodNotes) > 4000 THEN "Note cannot exceed 4000 characters." ELSE "",
          IF ~data.privacyConsent THEN "Privacy consent is required." ELSE "",
          IF ~data.termsConsent THEN "Accepting participation terms is required." ELSE ""} :
     m # ""}

\* connection s holds the answer to a register request with a JSON body
Validated(r) ==
  r.st = "done" /\ r.op = "register" /\ r.body # Unparseable

\* C27: a registration that violates no rule is accepted; one that violates
\* rules is answered 400 with exactly one message for each violated rule and
\* no other message, all of them and not only the first; camp type jodo with
\* the iaido exam brings the conflict message; and the answer 400 leaves the
\* store as it was.
C27_ValidationAccumulates ==
  /\ [](\A s \in DOMAIN req :
          Validated(req[s])
            => LET violated == ViolatedRules(sanitizePayload(req[s].body))
               IN /\ req[s].code = 201 <=> violated = {}
                  /\ req[s].code \in {201, 400}
                  /\ req[s].code = 400
                       => /\ {req[s].errors[i] : i \in DOMAIN req[s].errors} = violated
                          /\ Len(req[s].errors) = Cardinality(violated)
                  /\ (Truthy(req[s].body.wantsExamIaido)
                      /\ Trim(JsToString(req[s].body.campType)) = <<"jodo">>)
                       => \E i \in DOMAIN req[s].errors :
                            req[s].errors[i] =
                              "Iaido exam can only be selected with Iaido or Iaido + Jodo participation.")
  /\ [][\A s \in DOMAIN req :
          (Validated(req'[s]) /\ req'[s].code = 400) => db' = db]_vars

\* the empty body is answered with the messages of the eleven rules it
\* violates, the first about the name and the last about the terms
C27_Witness ==
  \E s \in DOMAIN req :
    /\ Validated(req[s])
    /\ req[s].code = 400
    /\ req[s].body = JsObject(<<>>)
    /\ Len(req[s].errors) = 11
    /\ req[s].errors[1] = "Full name is required."
    /\ req[s].errors[11] = "Accepting participation terms is required."

-----------------------------------------------------------------------------
(* Properties of list-all and of the stats *)

\* connection s gets the answer of the reading route `op` in this step
Reads(s, op) ==
  /\ req'[s] # req[s]
  /\ Answered(req'[s], op, 200)
  /\ req'[s].data.kind = op

\* the creation time of a registration in milliseconds
CreatedMs(createdAt) == ParseDigits(Tail(createdAt), 0)

\* the place of the row with `id` in the table: its insertion order
RowOf(table, id) == CHOOSE i \in Rows(table) : table[i].id = id

\* `list` holds every row of `table` once, by ascending creation time in
\* units of `unit` milliseconds, rows of the same time by insertion order
ListsInOrder(list, table, unit) ==
  /\ Len(list) = Len(table)
  /\ \A i \in Rows(table) : \E p \in DOMAIN list : list[p].id = table[i].id
  /\ \A p, q \in DOMAIN list :
       p < q =>
         \/ CreatedMs(list[p].createdAt) \div unit < CreatedMs(list[q].createdAt) \div unit
         \/ /\ CreatedMs(list[p].createdAt) \div unit = CreatedMs(list[q].createdAt) \div unit
            /\ RowOf(table, list[p].id) < RowOf(table, list[q].id)

\* two registrations that are in both lists are in the same order in both
SameOrder(earlier, later) ==
  \A p, q \in DOMAIN earlier :
    p < q =>
      \A x, y \in DOMAIN later :
        (later[x].id = earlier[p].id /\ later[y].id = earlier[q].id) => x < y

\* the list a connection got last is followed by the list it gets now
ListsAgain(s) == Read(s, "registrations") /\ Reads(s, "registrations")

\* C29 (as stated): list-all returns every row once, by ascending creation
\* time, rows of equal creation time by insertion order; and two rows are in
\* the same order in every later list, whatever was marked deleted or
\* anonymized in between.
C29_ListByCreationTime ==
  [][\A s \in DOMAIN req :
       /\ Reads(s, "registrations")
            => ListsInOrder(req'[s].data.registrations, db', 1)
       /\ ListsAgain(s)
            => SameOrder(req[s].data.registrations, req'[s].data.registrations)]_vars

\* C29 (amended): list-all returns every row once, by ascending creation
\* time in whole seconds, rows created within the same second by insertion
\* order; and two rows are in the same order in every later list, whatever
\* was marked deleted or anonymized in between.
C29_ListByCreationSecond ==
  [][\A s \in DOMAIN req :
       /\ Reads(s, "registrations")
            => ListsInOrder(req'[s].data.registrations, db', MsPerSecond)
       /\ ListsAgain(s)
            => SameOrder(req[s].data.registrations, req'[s].data.registrations)]_vars

\* a list read after rows were marked deleted and anonymized and a
\* registration was added: L2 and L3, of the same second, in insertion
\* order, L1 of the next second after them, the registration last
C29_Witness ==
  /\ Read(1, "registrations")
  /\ Len(db) = 4
  /\ statusOfId(db, <<"L3">>) = <<"ANONYMIZED">>
  /\ statusOfId(db, <<"L1">>) = <<"DELETED">>
  /\ Len(req[1].data.registrations) = 4
  /\ [p \in 1..4 |-> req[1].data.registrations[p].id]
       = <<<<"L2">>, <<"L3">>, <<"L1">>, NewRegistrationId(1)>>
  /\ req[1].data.registrations[2].status = <<"ANONYMIZED">>

ActiveRows(table) == {i \in Rows(table) : table[i].status \notin Terminal}

\* the sum of the stored amounts of the active rows among the first n
RECURSIVE ActiveAmount(_, _)
ActiveAmount(table, n) ==
  IF n = 0 THEN 0
  ELSE ActiveAmount(table, n - 1)
       + (IF n \in ActiveRows(table) THEN table[n].amount_huf ELSE 0)

\* the counts and the revenue of the stats `st` are those of `table`
CountsOf(st, table) ==
  /\ st.total = Cardinality(ActiveRows(table))
  /\ st.total + st.deletedCount + st.anonymizedCount = Len(table)
  /\ st.deletedCount
       = Cardinality({i \in Rows(table) : table[i].status = <<"DELETED">>})
  /\ st.projectedRevenueHuf = ActiveAmount(table, Len(table))
  /\ st.iaidoApplicants
       = Cardinality({i \in ActiveRows(table) :
                        table[i].camp_type \in {<<"iaido">>, <<"both">>}})
  /\ st.jodoApplicants
       = Cardinality({i \in ActiveRows(table) :
                        table[i].camp_type \in {<<"jodo">>, <<"both">>}})
  /\ ActiveRows(table) = {} => st.lastRegistrationAt = JsNull

\* C28 (as stated): the stats count the active rows as total, every row in
\* total + deletedCount + anonymizedCount, the stored amounts of the active
\* rows as projected revenue, the active rows of camp type iaido or both
\* (jodo or both) as iaidoApplicants (jodoApplicants), and give the largest
\* created_at among the active rows, or null, as lastRegistrationAt.
C28_StatsOfStore ==
  [][\A s \in DOMAIN req :
       Reads(s, "stats")
         => /\ CountsOf(req'[s].data.stats, db')
            /\ \A i \in ActiveRows(db') :
                 /\ req'[s].data.stats.lastRegistrationAt.t = "string"
                 /\ CreatedMs(db'[i].created_at)
                      <= CreatedMs(req'[s].data.stats.lastRegistrationAt.s)]_vars

\* C28 (amended): the same counts and revenue; lastRegistrationAt is the
\* created_at of the active row that list-all returns last, which is the
\* one inserted last among the active rows of the latest second, or null.
C28_StatsLastInListOrder ==
  [][\A s \in DOMAIN req :
       Reads(s, "stats")
         => /\ CountsOf(req'[s].data.stats, db')
            /\ \A i \in ActiveRows(db') :
                 /\ req'[s].data.stats.lastRegistrationAt.t = "string"
                 /\ CreatedMs(db'[i].created_at) \div MsPerSecond
                      <= CreatedMs(req'[s].data.stats.lastRegistrationAt.s) \div MsPerSecond
            /\ \E i \in ActiveRows(db') \cup {0} :
                 /\ i = 0 <=> ActiveRows(db') = {}
                 /\ i # 0 =>
                      /\ req'[s].data.stats.lastRegistrationAt = JsString(db'[i].created_at)
                      /\ \A j \in ActiveRows(db') :
                           (CreatedMs(db'[j].created_at) \div MsPerSecond
                              = CreatedMs(db'[i].created_at) \div MsPerSecond) => j <= i]_vars

\* stats of a store with an active, a deleted and an anonymized imported row
\* and an active registration
C28_Witness ==
  /\ Read(1, "stats")
  /\ Len(db) = 4
  /\ statusOfId(db, <<"L1">>) = <<"DELETED">>
  /\ statusOfId(db, <<"L3">>) = <<"ANONYMIZED">>
  /\ req[1].data.stats.total = 2
  /\ req[1].data.stats.deletedCount = 1
  /\ req[1].data.stats.anonymizedCount = 1
  /\ req[1].data.stats.jodoApplicants = 2
  /\ req[1].data.stats.projectedRevenueHuf = 149 + 182
  /\ req[1].data.stats.lastRegistrationAt = JsString(toISOString(2 * MsPerSecond))

-----------------------------------------------------------------------------
(* Properties of the stateless session *)

\* a request to a route that reads the session cookie has been answered
AnsweredAuth(r) == r.st = "done" /\ r.op \in GatedOps \cup {"session"}

\* the token of the cookie is well signed for the admin and its expiry is not
\* before the second of `ms`
ValidAt(cookie, ms) ==
  /\ cookie.has
  /\ WellSigned(cookie.token)
  /\ cookie.token[1].object.exp.n >= ms \div MsPerSecond

\* C30: whether a request is let in is decided by its token, the secret, the
\* admin name and the time of the request alone, whatever requests came
\* before; a logout changes nothing the server holds; and the token of a
\* login authenticates after a logout exactly until its expiry has passed.
C30_StatelessAuthentication ==
  /\ [](\A s \in DOMAIN req :
          AnsweredAuth(req[s])
            => (Authenticates(req[s]) <=> ValidAt(req[s].cookie, req[s].at)))
  /\ [][\A s \in DOMAIN req :
          (req'[s] # req[s] /\ req'[s].op = "logout")
            => /\ UNCHANGED <<db, legacyFile, up, uuids, terminated>>
               /\ req'[s].code = 200]_vars
  /\ [](\A s \in DOMAIN req :
          (WithIssuedToken(req[s]) /\ req[s].issued.out)
            => (Authenticates(req[s])
                  <=> ExpOf(req[s].issued) >= req[s].at \div MsPerSecond))

\* a session request with the token of a login, after a logout and at a
\* later time, is let in
C30_Witness ==
  \E s \in DOMAIN req :
    /\ WithIssuedToken(req[s])
    /\ req[s].issued.out
    /\ req[s].op = "session"
    /\ req[s].at > req[s].issued.at
    /\ Authenticates(req[s])

====
